---------------------------- MODULE Spec2Model ----------------------------
(***************************************************************************)
(* Behavior Engine of "Lavicka nad morem": the per-turn scheduling loop    *)
(* for two NPCs on the bench (engine/*.py as documented in DOCS.md).       *)
(*                                                                         *)
(* Drives, energies and intensities are integers in hundredths (0.25 is    *)
(* 25); scores are in ten-thousandths (a product of two hundredths).       *)
(***************************************************************************)
EXTENDS Integers, Sequences, FiniteSets, TLC

(***************************************************************************)
(* Bounds of the model.                                                    *)
(***************************************************************************)
\* turns of a scene in which the NPCs talk
MaxTurn == 5
\* forced events the user injects in one scene
MaxForced == 2
\* turns of a scene with forced events
MaxForcedTurn == 3
\* Speech proposals the response producer returns in a scene with forced events
MaxSpeech == 3
\* Speech proposals in a scene without forced events
MaxTalk == 5
\* Thought / Action responses the producer returns in a quiet scene
MaxActivity == 2
\* ambient events in one scene
MaxAmbient == 1
\* turns of a quiet scene
MaxQuietTurn == 9

\* The outside world of one scene: how many inputs of each kind it supplies.
Profiles ==
    { [turns |-> MaxForcedTurn, forced |-> MaxForced, speech |-> MaxSpeech,
       activity |-> 0, ambient |-> 0],
      [turns |-> MaxTurn, forced |-> 0, speech |-> MaxTalk,
       activity |-> 1, ambient |-> 0],
      [turns |-> MaxQuietTurn, forced |-> 0, speech |-> 1,
       activity |-> MaxActivity, ambient |-> MaxAmbient] }

(***************************************************************************)
(* Agents and static traits (data/postavy.json).                           *)
(***************************************************************************)
NoNpc == "none"
\* the stable agent ordering used by the selector
NpcOrder == <<"karel", "vlasta">>
Npcs == {NpcOrder[i] : i \in 1..Len(NpcOrder)}
OtherNpc(n) == CHOOSE m \in Npcs : m # n
\* povaha.mluvnost of the two NPCs; one talkative, one quiet
Mluvnost == [karel |-> 60, vlasta |-> 20]

(***************************************************************************)
(* types.py: defaults of NPCBehaviorState and SceneContext.                *)
(***************************************************************************)
NeverTurn == -1
InitSpeakDrive == 30
InitStayDrive == 70
InitEngagementDrive == 30
InitEnergy == 100
InitSceneEnergy == 50

\* the variant of InitNpcState in which the three turn indices start at turn 0
InitNpcStateZero ==
    [speak_drive |-> InitSpeakDrive, stay_drive |-> InitStayDrive,
     engagement_drive |-> InitEngagementDrive, cooldown_turns |-> 0,
     energy |-> InitEnergy, last_acted_turn |-> 0, last_selected_turn |-> 0,
     last_addressed_turn |-> 0]
InitNpcState ==
    [speak_drive |-> InitSpeakDrive, stay_drive |-> InitStayDrive,
     engagement_drive |-> InitEngagementDrive, cooldown_turns |-> 0,
     energy |-> InitEnergy, last_acted_turn |-> NeverTurn,
     last_selected_turn |-> NeverTurn, last_addressed_turn |-> NeverTurn]

InitSceneContext ==
    [turn_number |-> 0, scene_energy |-> InitSceneEnergy,
     consecutive_silence |-> 0, consecutive_inactivity |-> 0]

Max2(x, y) == IF x >= y THEN x ELSE y
Min2(x, y) == IF x <= y THEN x ELSE y

\* the variant of Clamp that forgets the upper limit
ClampNoCeiling(x) == Max2(0, x)
\* every drive / energy assignment goes through the clamp to [0,1]
Clamp(x) == Max2(0, Min2(100, x))

(***************************************************************************)
(* SceneContext: on_speech / on_action / on_thought / on_nothing, is_dying *)
(***************************************************************************)
SpeechEnergyGain == 10
ActionEnergyGain == 3
ThoughtEnergyGain == 1
NothingEnergyLoss == 7
DyingInactivity == 2
DyingEnergy == 15

\* the variant of OnSpeech that resets the silence counter only
OnSpeechSilenceOnly(sc) ==
    [sc EXCEPT !.consecutive_silence = 0,
               !.scene_energy = Clamp(@ + SpeechEnergyGain)]
OnSpeech(sc) ==
    [sc EXCEPT !.consecutive_silence = 0, !.consecutive_inactivity = 0,
               !.scene_energy = Clamp(@ + SpeechEnergyGain)]
OnAction(sc) ==
    [sc EXCEPT !.consecutive_inactivity = 0,
               !.scene_energy = Clamp(@ + ActionEnergyGain)]
\* the variant of OnThought in which a thought does not reset inactivity
OnThoughtInactive(sc) ==
    [sc EXCEPT !.consecutive_inactivity = @ + 1,
               !.scene_energy = Clamp(@ + ThoughtEnergyGain)]
OnThought(sc) ==
    [sc EXCEPT !.consecutive_inactivity = 0,
               !.scene_energy = Clamp(@ + ThoughtEnergyGain)]
\* the variant of OnNothing that leaves the inactivity counter alone
OnNothingSilenceOnly(sc) ==
    [sc EXCEPT !.consecutive_silence = @ + 1,
               !.scene_energy = Clamp(@ - NothingEnergyLoss)]
OnNothing(sc) ==
    [sc EXCEPT !.consecutive_silence = @ + 1, !.consecutive_inactivity = @ + 1,
               !.scene_energy = Clamp(@ - NothingEnergyLoss)]

\* the variant of IsDying that counts silent turns instead of inactive ones
IsDyingBySilence(sc) ==
    sc.consecutive_silence >= DyingInactivity /\ sc.scene_energy < DyingEnergy
IsDying(sc) ==
    sc.consecutive_inactivity >= DyingInactivity /\ sc.scene_energy < DyingEnergy

\* the variant of SceneAfter in which a Thought counts as silence and inactivity
SceneAfterThoughtAsNothing(sc, cat) ==
    CASE cat = "speech" -> OnSpeech(sc)
      [] cat = "action" -> OnAction(sc)
      [] OTHER -> OnNothing(sc)
\* exactly one of the four transitions, keyed by the committed category
SceneAfter(sc, cat) ==
    CASE cat = "speech" -> OnSpeech(sc)
      [] cat = "action" -> OnAction(sc)
      [] cat = "thought" -> OnThought(sc)
      [] OTHER -> OnNothing(sc)

(***************************************************************************)
(* Utterances.  A text is a sequence of words; the response producer draws *)
(* its Speech texts from TextPool.                                         *)
(***************************************************************************)
NoText == <<>>
TextPool ==
    { <<"Ano", "more">>,            \* plain statement
      <<"ano", "more">>,            \* the same statement, other capitalisation
      <<"Ano", "vitr">>,            \* same opening word, new content
      <<"Ano", "racek", "?">>,      \* same opening word, a question
      <<"Ano", "more", "vitr">>,    \* same opening word, repeated keywords
      <<"Karle", "?">>,             \* vocative of Karel and a question
      <<"Sbohem">> }                \* departure language

Punctuation == {"?", ","}
\* str.lower() on one word
Lower(w) ==
    CASE w = "Ano" -> "ano"
      [] w = "Karle" -> "karle"
      [] w = "Vlasto" -> "vlasto"
      [] w = "Sbohem" -> "sbohem"
      [] OTHER -> w

\* the variant of Normalize that keeps the capitalisation
NormalizeKeepCase(t) == t
\* normalize(text): the text in lower case
Normalize(t) == [i \in 1..Len(t) |-> Lower(t[i])]

\* _extract_start("Ano, mate pravdu.") -> "ano": the first word, lower case
ExtractStart(t) == IF Len(t) = 0 THEN "" ELSE Lower(t[1])
StartTokens == {ExtractStart(t) : t \in TextPool}

\* vocative and nominative forms by which an NPC is addressed
AddressForms(n) ==
    CASE n = "karel" -> {"karel", "karle"}
      [] n = "vlasta" -> {"vlasta", "vlasto"}
      [] OTHER -> {}
\* detect_addressing: a form of the name opens the sentence or follows a comma
DetectAddressing(t, n) ==
    \E i \in 1..Len(t) :
        /\ Lower(t[i]) \in AddressForms(n)
        /\ (i = 1 \/ t[i - 1] = ",")
\* detect_question_to_npc with total_npcs = 2: any question is to the other NPC
DetectQuestionToNpc(t, n) == \E i \in 1..Len(t) : t[i] = "?"
\* heuristic detection of a farewell in a committed utterance
DetectGoodbye(t) == \E i \in 1..Len(t) : Lower(t[i]) = "sbohem"

(***************************************************************************)
(* anti_repetition.py                                                      *)
(***************************************************************************)
\* accepted utterances kept per NPC
HistoryWindow == 4
StartPenaltyOnce == 20
StartPenaltyTwice == 50
StartPenaltyMany == 80
WordPenaltyEach == 15
WordPenaltyMax == 30
AcceptBelow == 40
ThoughtBelow == 60
ActionBelow == 80

EmptyCounts == [tok \in StartTokens |-> 0]

\* penalty for an opening word already used c times
StartPenalty(c) ==
    CASE c <= 0 -> 0
      [] c = 1 -> StartPenaltyOnce
      [] c = 2 -> StartPenaltyTwice
      [] OTHER -> StartPenaltyMany

\* keywords of the proposal (not its opening word) that recent utterances used
RepeatedWords(hist, t) ==
    { i \in 2..Len(t) :
        /\ t[i] \notin Punctuation
        /\ \E k \in 1..Len(hist) : \E j \in 1..Len(hist[k]) :
               Lower(hist[k][j]) = Lower(t[i]) }
WordPenalty(hist, t) ==
    Min2(WordPenaltyMax, WordPenaltyEach * Cardinality(RepeatedWords(hist, t)))

\* get_penalty(npc_id, proposed_text) against the existing history
GetPenalty(hist, counts, t) ==
    Min2(100, StartPenalty(counts[ExtractStart(t)]) + WordPenalty(hist, t))

\* the variant of GetRejectionAction that accepts up to and including 0.5
GetRejectionActionLax(penalty) ==
    IF penalty < ThoughtBelow THEN "accept"
    ELSE IF penalty < ActionBelow THEN "downgrade_to_action"
    ELSE "reject"
\* the variant of GetRejectionAction with the band limits on the lower side
GetRejectionActionClosed(penalty) ==
    IF penalty <= AcceptBelow THEN "accept"
    ELSE IF penalty <= ThoughtBelow THEN "downgrade_to_thought"
    ELSE IF penalty <= ActionBelow THEN "downgrade_to_action"
    ELSE "reject"
GetRejectionAction(penalty) ==
    IF penalty < AcceptBelow THEN "accept"
    ELSE IF penalty < ThoughtBelow THEN "downgrade_to_thought"
    ELSE IF penalty < ActionBelow THEN "downgrade_to_action"
    ELSE "reject"

\* the variant of IsHardDuplicate that never finds a duplicate
IsHardDuplicateNever(hist, t) == FALSE
\* HARD DUPLICATE CHECK: the same normalized text as the NPC's last speech
IsHardDuplicate(hist, t) ==
    /\ Len(hist) > 0
    /\ Normalize(t) = Normalize(hist[Len(hist)])

\* record_speech: append to the bounded history
RecordHistory(hist, t) ==
    IF Len(hist) < HistoryWindow THEN Append(hist, t)
    ELSE Append(Tail(hist), t)
\* record_speech: count the opening word; forget the one that left the window
RecordCounts(hist, counts, t) ==
    LET dropped == IF Len(hist) < HistoryWindow THEN "" ELSE ExtractStart(hist[1])
        c1 == IF dropped = "" THEN counts
              ELSE [counts EXCEPT ![dropped] = Max2(0, @ - 1)]
    IN  [c1 EXCEPT ![ExtractStart(t)] = @ + 1]

\* pre-check penalty used by the updater and the scorer: past repetition
PreCheckPenalty(counts) ==
    LET most == CHOOSE c \in {counts[tok] : tok \in StartTokens} :
                    \A tok \in StartTokens : counts[tok] <= c
    IN  StartPenalty(most - 1)

(***************************************************************************)
(* world_event.py: WorldEventGenerator.generate                            *)
(***************************************************************************)
AmbientTurnCooldown == 3
ForcedIntensity == 100
QuestionIntensity == 80
RevivalIntensity == 60
AmbientIntensity == 50

NoForced == [question |-> FALSE, target |-> "absent"]
\* the variant of ForcedInputs in which a forced question names nobody
ForcedInputsUntargeted ==
    {[question |-> FALSE, target |-> NoNpc], [question |-> TRUE, target |-> NoNpc]}
\* what the user can enter with key E: an event, or a question to one NPC
ForcedInputs ==
    {[question |-> FALSE, target |-> NoNpc]}
        \cup {[question |-> TRUE, target |-> n] : n \in Npcs}

SilenceEvent ==
    [kind |-> "silence", target |-> NoNpc, intensity |-> 0, source |-> "default"]

\* the variant of Generate in which a dying scene is left in silence
GenerateNoRevival(sc, forced, lastWasQuestion, questionTarget, ambientFires) ==
    IF forced # NoForced
    THEN [kind |-> IF forced.question THEN "pressure" ELSE "stimulus",
          target |-> forced.target, intensity |-> ForcedIntensity,
          source |-> "forced"]
    ELSE IF lastWasQuestion
    THEN [kind |-> "pressure", target |-> questionTarget,
          intensity |-> QuestionIntensity, source |-> "question"]
    ELSE IF ambientFires
    THEN [kind |-> "stimulus", target |-> NoNpc,
          intensity |-> AmbientIntensity, source |-> "ambient"]
    ELSE SilenceEvent
\* first match wins: forced, question, dying, ambient, silence
Generate(sc, forced, lastWasQuestion, questionTarget, ambientFires) ==
    IF forced # NoForced
    THEN [kind |-> IF forced.question THEN "pressure" ELSE "stimulus",
          target |-> forced.target, intensity |-> ForcedIntensity,
          source |-> "forced"]
    ELSE IF lastWasQuestion
    THEN [kind |-> "pressure", target |-> questionTarget,
          intensity |-> QuestionIntensity, source |-> "question"]
    ELSE IF IsDying(sc)
    THEN [kind |-> "stimulus", target |-> NoNpc,
          intensity |-> RevivalIntensity, source |-> "dying"]
    ELSE IF ambientFires
    THEN [kind |-> "stimulus", target |-> NoNpc,
          intensity |-> AmbientIntensity, source |-> "ambient"]
    ELSE SilenceEvent

(***************************************************************************)
(* drive_update.py: DriveUpdater.update_drives / on_after_speech           *)
(***************************************************************************)
SpeakPressureBoost == 25
SpeakAddressBoost == 15
TalkativeAbove == 30
SpeakSilenceGrowth == 5
LowEnergy == 30
SpeakLowEnergyPenalty == 5
SpeakCooldownPenalty == 10
SpeakAntiRepPercent == 20
StayDyingDecay == 20
LongSilence == 3
StaySilenceDecay == 5
StayLowEnergyDecay == 5
BoredomPenalty == 50
StayBoredomDecay == 5
LivelyEnergy == 60
StayLivelyBoost == 5
EngagementAddressBoost == 35
EngagementQuestionBoost == 25
EngagementPressurePercent == 10
EngagementSilenceDecay == 5
EngagementSelectedDecay == 6
EngagementCap == 45
SpeechDropSuccess == 5
SpeechDropFailed == 3

IsTarget(ev, n) == ev.kind = "pressure" /\ ev.target = n

UpdateSpeakDrive(st, n, ev, antiRep, addressed) ==
    LET d1 == Clamp(st.speak_drive
                      + (IF IsTarget(ev, n) THEN SpeakPressureBoost ELSE 0))
        d2 == Clamp(d1 + (IF addressed THEN SpeakAddressBoost ELSE 0))
        d3 == Clamp(d2 + (IF ev.kind = "silence" /\ Mluvnost[n] > TalkativeAbove
                          THEN SpeakSilenceGrowth ELSE 0))
        d4 == Clamp(d3 - (IF st.energy < LowEnergy
                          THEN SpeakLowEnergyPenalty ELSE 0))
        d5 == Clamp(d4 - (IF st.cooldown_turns > 0
                          THEN SpeakCooldownPenalty ELSE 0))
    IN  Clamp(d5 - (antiRep * SpeakAntiRepPercent) \div 100)

\* the variant of UpdateStayDrive in which the wish to stay never fades
UpdateStayDriveNoDecay(st, sc, antiRep) == st.stay_drive
UpdateStayDrive(st, sc, antiRep) ==
    LET d1 == Clamp(st.stay_drive - (IF IsDying(sc) THEN StayDyingDecay ELSE 0))
        d2 == Clamp(d1 - (IF sc.consecutive_silence >= LongSilence
                          THEN StaySilenceDecay ELSE 0))
        d3 == Clamp(d2 - (IF st.energy < LowEnergy
                          THEN StayLowEnergyDecay ELSE 0))
        d4 == Clamp(d3 - (IF antiRep >= BoredomPenalty
                          THEN StayBoredomDecay ELSE 0))
    IN  Clamp(d4 + (IF sc.scene_energy > LivelyEnergy
                    THEN StayLivelyBoost ELSE 0))

\* the variant of EngagementBoost in which any Pressure on the NPC gives the
\* whole capped growth
EngagementBoostFullOnPressure(n, ev, addressed, asked) ==
    IF IsTarget(ev, n) THEN EngagementCap
    ELSE Max2(IF addressed THEN EngagementAddressBoost ELSE 0,
              IF asked THEN EngagementQuestionBoost ELSE 0)
\* the variant of EngagementBoost that adds up every trigger, without a cap
EngagementBoostSummed(n, ev, addressed, asked) ==
    (IF addressed THEN EngagementAddressBoost ELSE 0)
      + (IF asked THEN EngagementQuestionBoost ELSE 0)
      + (IF IsTarget(ev, n)
         THEN (EngagementPressurePercent * ev.intensity) \div 100 ELSE 0)
\* growth of engagement in one update: max(address, question) + pressure, capped
EngagementBoost(n, ev, addressed, asked) ==
    Min2(EngagementCap,
         Max2(IF addressed THEN EngagementAddressBoost ELSE 0,
              IF asked THEN EngagementQuestionBoost ELSE 0)
           + (IF IsTarget(ev, n)
              THEN (EngagementPressurePercent * ev.intensity) \div 100 ELSE 0))

EngagementDecay(st, ev, sc, addressed) ==
    (IF ev.kind = "silence" /\ ~addressed THEN EngagementSilenceDecay ELSE 0)
      + (IF st.last_selected_turn # NeverTurn
            /\ st.last_selected_turn = sc.turn_number - 1 /\ ~addressed
         THEN EngagementSelectedDecay ELSE 0)

UpdateEngagementDrive(st, n, ev, sc, addressed, asked) ==
    Clamp(Clamp(st.engagement_drive + EngagementBoost(n, ev, addressed, asked))
            - EngagementDecay(st, ev, sc, addressed))

UpdateDrivesOf(st, n, ev, sc, antiRep, addressed, asked) ==
    [st EXCEPT
        !.speak_drive = UpdateSpeakDrive(st, n, ev, antiRep, addressed),
        !.stay_drive = UpdateStayDrive(st, sc, antiRep),
        !.engagement_drive = UpdateEngagementDrive(st, n, ev, sc, addressed, asked),
        !.last_addressed_turn =
            IF addressed \/ asked THEN sc.turn_number ELSE @]

\* on_after_speech(state, was_successful): the urge to speak drops
OnAfterSpeech(st, wasSuccessful) ==
    [st EXCEPT !.speak_drive =
        Clamp(@ - (IF wasSuccessful THEN SpeechDropSuccess ELSE SpeechDropFailed))]

(***************************************************************************)
(* scorer.py: SpeakScorer.score / select_top_k                             *)
(***************************************************************************)
TopK == 1
MinScoreToSpeak == 1500
PressureBonusFactor == 40
StimulusBonusFactor == 20
CooldownPenalty == 3000
LowEnergyScorePenalty == 1000
AntiRepScoreFactor == 30
JustActedNow == 2500
JustActedLast == 1250
JustSelectedNow == 1500
JustSelectedLast == 750
EngagementHigh == 50
EngagementBonusFactor == 30
EngagementLow == 25
EngagementPenaltyFactor == 80

JustActed(st, turn) ==
    IF st.last_acted_turn = turn THEN JustActedNow
    ELSE IF st.last_acted_turn # NeverTurn /\ st.last_acted_turn = turn - 1
    THEN JustActedLast
    ELSE 0

JustSelected(st, turn) ==
    IF st.last_selected_turn = turn THEN JustSelectedNow
    ELSE IF st.last_selected_turn # NeverTurn /\ st.last_selected_turn = turn - 1
    THEN JustSelectedLast
    ELSE 0

EngagementMod(st) ==
    IF st.engagement_drive >= EngagementHigh
    THEN EngagementBonusFactor * (st.engagement_drive - EngagementHigh)
    ELSE IF st.engagement_drive < EngagementLow
    THEN 0 - EngagementPenaltyFactor * (EngagementLow - st.engagement_drive)
    ELSE 0

\* the variant of Score that forgets the bonus of the Pressure target
ScoreNoPressureBonus(st, n, ev, antiRep, turn) ==
    st.speak_drive * st.energy
      + (IF ev.kind = "stimulus"
         THEN (StimulusBonusFactor * ev.intensity * Mluvnost[n]) \div 100 ELSE 0)
      - CooldownPenalty * st.cooldown_turns
      - (IF st.energy < LowEnergy THEN LowEnergyScorePenalty ELSE 0)
      - AntiRepScoreFactor * antiRep
      - JustActed(st, turn)
      - JustSelected(st, turn)
      + EngagementMod(st)
Score(st, n, ev, antiRep, turn) ==
    st.speak_drive * st.energy
      + (IF IsTarget(ev, n) THEN PressureBonusFactor * ev.intensity ELSE 0)
      + (IF ev.kind = "stimulus"
         THEN (StimulusBonusFactor * ev.intensity * Mluvnost[n]) \div 100 ELSE 0)
      - CooldownPenalty * st.cooldown_turns
      - (IF st.energy < LowEnergy THEN LowEnergyScorePenalty ELSE 0)
      - AntiRepScoreFactor * antiRep
      - JustActed(st, turn)
      - JustSelected(st, turn)
      + EngagementMod(st)

\* the variant of Ranked in which equal scores put the second NPC first
RankedTiesLast(sts, ev, pens, turn) ==
    LET s1 == Score(sts[NpcOrder[1]], NpcOrder[1], ev, pens[NpcOrder[1]], turn)
        s2 == Score(sts[NpcOrder[2]], NpcOrder[2], ev, pens[NpcOrder[2]], turn)
    IN  IF s2 >= s1 THEN <<NpcOrder[2], NpcOrder[1]>> ELSE NpcOrder
\* NPCs by descending score; equal scores keep the stable agent ordering
Ranked(sts, ev, pens, turn) ==
    LET s1 == Score(sts[NpcOrder[1]], NpcOrder[1], ev, pens[NpcOrder[1]], turn)
        s2 == Score(sts[NpcOrder[2]], NpcOrder[2], ev, pens[NpcOrder[2]], turn)
    IN  IF s2 > s1 THEN <<NpcOrder[2], NpcOrder[1]>> ELSE NpcOrder

\* select_top_k with K = 1: the best NPC, if its score allows speaking
SelectTop(sts, ev, pens, turn) ==
    LET best == Ranked(sts, ev, pens, turn)[TopK]
    IN  IF Score(sts[best], best, ev, pens[best], turn) >= MinScoreToSpeak
        THEN best ELSE NoNpc

(***************************************************************************)
(* behavior_engine.py: gates before the AI call, _process_response         *)
(***************************************************************************)
max_consecutive_speaker == 2
MaxConsecutiveActions == 2
GateEngagement == 25
GateSpeakDrive == 65
LeaveThreshold == 10
CooldownSpeech == 1
EnergyCostSpeech == 15
EnergyRegenTurn == 5

\* the variant of Categories that lets the AI answer with a goodbye
CategoriesWithGoodbye == {"speech", "thought", "action", "nothing", "goodbye"}
Categories == {"speech", "thought", "action", "nothing"}
NoResponse == [category |-> "none", text |-> NoText]
NothingResponse == [category |-> "nothing", text |-> NoText]

\* the variant of SpeakerCapReached that allows a third speech in a row
SpeakerCapReachedLate(lastSpeaker, count, n) ==
    lastSpeaker = n /\ count >= max_consecutive_speaker + 1
\* Max consecutive speaker, checked before the AI call
SpeakerCapReached(lastSpeaker, count, n) ==
    lastSpeaker = n /\ count >= max_consecutive_speaker

\* the variant of PermissionDenied that lets every selected NPC through
PermissionDeniedNever(st) == FALSE
\* Permission gate: no "social permission" to speak
\* the variant of PermissionDenied with the engagement limit included
PermissionDeniedInclusive(st) ==
    st.engagement_drive <= GateEngagement /\ st.speak_drive < GateSpeakDrive
PermissionDenied(st) ==
    st.engagement_drive < GateEngagement /\ st.speak_drive < GateSpeakDrive

\* the permission gate of the older versions: ACTION when the urge is high
PermissionFallbackOld(st) ==
    IF st.speak_drive > 45
    THEN [category |-> "action", text |-> <<"Pozoruje", "okoli">>]
    ELSE NothingResponse
\* the local result of a denied permission (film style: always NOTHING)
PermissionFallback(st) == NothingResponse

\* why the selected NPC gets no AI call this turn, or "open"
GateReason(sts, lastSpeaker, count, n) ==
    IF n = NoNpc THEN "no_candidate"
    ELSE IF SpeakerCapReached(lastSpeaker, count, n) THEN "max_consecutive"
    ELSE IF PermissionDenied(sts[n]) THEN "permission"
    ELSE "open"

\* the variant of LocalResponse of the versions before the film style: an
\* NPC stopped at the speaker cap does a generic ACTION
LocalResponseOld(reason, st) ==
    IF reason = "permission" THEN PermissionFallback(st)
    ELSE IF reason = "max_consecutive"
    THEN [category |-> "action", text |-> <<"Pozoruje", "okoli">>]
    ELSE NothingResponse
\* the result the engine produces itself when the AI call is skipped
LocalResponse(reason, st) ==
    IF reason = "permission" THEN PermissionFallback(st) ELSE NothingResponse

NoCheck == [duplicate |-> FALSE, penalty |-> 0, verdict |-> "none"]
\* the post-check of a Speech proposal against the existing history
PostCheck(hist, counts, t) ==
    [duplicate |-> IsHardDuplicate(hist, t),
     penalty |-> GetPenalty(hist, counts, t),
     verdict |-> GetRejectionAction(GetPenalty(hist, counts, t))]

\* _process_response: what is finally committed for the AI's proposal
ProcessResponse(check, actions, prop) ==
    IF prop.category = "speech"
    THEN IF check.duplicate THEN NothingResponse
         ELSE IF check.verdict = "accept" THEN prop
         ELSE IF check.verdict = "downgrade_to_thought"
         THEN [category |-> "thought", text |-> prop.text]
         ELSE NothingResponse
    ELSE IF prop.category = "action"
    THEN IF actions >= MaxConsecutiveActions THEN NothingResponse ELSE prop
    ELSE IF prop.category = "thought" THEN prop
    ELSE NothingResponse

(***************************************************************************)
(* behavior_engine.py: committing the turn                                 *)
(***************************************************************************)
\* the variant of IsActivity that counts a Nothing as having acted
IsActivityAny(cat) == cat \in {"speech", "thought", "action", "nothing"}
IsActivity(cat) == cat \in {"speech", "thought", "action"}

\* the state of one NPC after the turn is committed
CommitNpc(st, isSelected, cat, proposedSpeech, text, turn) ==
    LET s1 == IF isSelected /\ proposedSpeech
              THEN OnAfterSpeech(st, cat = "speech") ELSE st
        s2 == IF isSelected /\ cat = "speech"
              THEN [s1 EXCEPT !.energy = Clamp(@ - EnergyCostSpeech),
                              !.cooldown_turns = CooldownSpeech]
              ELSE [s1 EXCEPT !.cooldown_turns = Max2(0, @ - 1)]
        s3 == IF isSelected /\ cat = "speech" /\ DetectGoodbye(text)
              THEN [s2 EXCEPT !.stay_drive = 0] ELSE s2
        s4 == IF isSelected /\ IsActivity(cat)
              THEN [s3 EXCEPT !.last_acted_turn = turn] ELSE s3
    IN  [s4 EXCEPT !.energy = Clamp(@ + EnergyRegenTurn)]

\* the variant of HistoryAfter that records every Speech proposal
HistoryAfterProposal(hist, prop, final) ==
    IF prop.category = "speech" THEN RecordHistory(hist, prop.text) ELSE hist
\* record_speech is called only for the final speech
HistoryAfter(hist, prop, final) ==
    IF final.category = "speech" THEN RecordHistory(hist, final.text) ELSE hist

CountsAfter(hist, counts, final) ==
    IF final.category = "speech" THEN RecordCounts(hist, counts, final.text)
    ELSE counts

\* _consecutive_action_count of the selected NPC
ActionStreakAfter(streak, cat) ==
    IF cat = "action" THEN streak + 1
    ELSE IF cat \in {"speech", "nothing"} THEN 0
    ELSE streak

\* a scene ends when an NPC wants to leave
\* the variant of WantsToLeave that waits for the drive to reach zero
WantsToLeaveAtZero(st) == st.stay_drive <= 0
WantsToLeave(st) == st.stay_drive <= LeaveThreshold

(***************************************************************************)
(* State of one scene.                                                     *)
(***************************************************************************)
VARIABLES
    npc,                        \* NPC id -> NPCBehaviorState
    scene,                      \* SceneContext
    history,                    \* NPC id -> accepted utterances
    start_counts,               \* NPC id -> opening word -> count
    last_speaker_id,            \* _last_speaker_id
    consecutive_speaker_count,  \* _consecutive_speaker_count
    consecutive_action_count,   \* NPC id -> _consecutive_action_count
    last_ambient_turn,          \* turn of the last ambient event
    last_response,              \* what the previous turn committed
    phase,                      \* "Idle", "AwaitingExternalResponse", "Ended"
    event,                      \* the WorldEvent of the current / last turn
    selected,                   \* the NPC chosen by the scorer in that turn
    gate,                       \* why the AI call was skipped, or "open"
    gate_state,                 \* the selected NPC's state when the gate was checked
    ai_calls,                   \* AI calls made in that turn
    proposal,                   \* what the response producer returned
    producer_failed,            \* the AI call failed or timed out
    post_check,                 \* the anti-repetition post-check of the proposal
    resolved,                   \* the final response of that turn
    turn_log,                   \* DEV_INTENT_LOG: who committed what, last turns
    budget                      \* inputs the outside world may still supply

(***************************************************************************)
(* State of the memory server (mcp-server/src/index.ts): the content of    *)
(* data/memories.json, and the tool call handled last.                     *)
(***************************************************************************)
VARIABLES
    npcs,                       \* the keys of data.npcs
    lide,                       \* data.npcs[npc_id].lide[osoba_id]
    vztahy,                     \* data.npcs["_vztahy"].vztahy[key]
    pozadavek,                  \* the tool and the ids of the last tool call
    odpoved,                    \* the JSON the last tool call returned
    zbyva                       \* tool calls the client may still make

enginevars ==
    <<npc, scene, history, start_counts, last_speaker_id,
      consecutive_speaker_count, consecutive_action_count, last_ambient_turn,
      last_response, phase, event, selected, gate, gate_state, ai_calls,
      proposal, producer_failed, post_check, resolved, turn_log, budget>>
memvars == <<npcs, lide, vztahy, pozadavek, odpoved, zbyva>>
vars == <<enginevars, memvars>>

\* ids of the README examples, in the order of Array.prototype.sort
MemIds == <<"babicka_vlasta", "delnik_franta">>
Ids == {MemIds[i] : i \in 1..Len(MemIds)}
NoOsoba == [sila |-> 0, pocet_setkani |-> 0]
NoVztah == [faze |-> "none"]
NoCall == [name |-> "none"]
\* the variant of pairKey that keeps the ids in the order of the call
pairKeyAsGiven(a, b) == <<a, b>>
\* pairKey: the two ids sorted (and joined)
pairKey(a, b) ==
    LET ia == CHOOSE i \in 1..Len(MemIds) : MemIds[i] = a
        ib == CHOOSE i \in 1..Len(MemIds) : MemIds[i] = b
    IN  IF ia <= ib THEN <<a, b>> ELSE <<b, a>>
\* a relationship is kept between two different ids
Keys == {key \in {pairKey(a, b) : a \in Ids, b \in Ids} : key[1] # key[2]}
\* loadData when there is no data file: { npcs: {} }
EmptyData ==
    [npcs |-> {},
     lide |-> [n \in Ids |-> [o \in Ids |-> NoOsoba]],
     vztahy |-> [k \in Keys |-> NoVztah]]
EmptyStore ==
    /\ npcs = EmptyData.npcs
    /\ lide = EmptyData.lide
    /\ vztahy = EmptyData.vztahy
\* the memory server takes no part in a scene of the engine
NoMemoryCalls ==
    /\ EmptyStore
    /\ pozadavek = NoCall
    /\ odpoved = NoCall
    /\ zbyva = [uloz |-> 0, decay |-> 0, forgets |-> FALSE, hleda |-> FALSE,
                vztah |-> 0, kronika |-> FALSE, faults |-> 0]

NoLastResponse == [npc |-> NoNpc, category |-> "none", text |-> NoText]

Init ==
    /\ npc = [n \in Npcs |-> InitNpcState]
    /\ scene = InitSceneContext
    /\ history = [n \in Npcs |-> <<>>]
    /\ start_counts = [n \in Npcs |-> EmptyCounts]
    /\ last_speaker_id = NoNpc
    /\ consecutive_speaker_count = 0
    /\ consecutive_action_count = [n \in Npcs |-> 0]
    /\ last_ambient_turn = 0
    /\ last_response = NoLastResponse
    /\ phase = "Idle"
    /\ event = SilenceEvent
    /\ selected = NoNpc
    /\ gate = "open"
    /\ gate_state = InitNpcState
    /\ ai_calls = 0
    /\ proposal = NoResponse
    /\ producer_failed = FALSE
    /\ post_check = NoCheck
    /\ resolved = NoResponse
    /\ turn_log = <<>>
    /\ budget \in Profiles
    /\ NoMemoryCalls

LastWasQuestion ==
    /\ last_response.category = "speech"
    /\ DetectQuestionToNpc(last_response.text, OtherNpc(last_response.npc))
QuestionTarget ==
    IF last_response.npc \in Npcs THEN OtherNpc(last_response.npc) ELSE NoNpc
WasAddressed(n) ==
    /\ last_response.category = "speech"
    /\ last_response.npc # n
    /\ DetectAddressing(last_response.text, n)
WasAskedQuestion(n) ==
    /\ last_response.category = "speech"
    /\ last_response.npc # n
    /\ DetectQuestionToNpc(last_response.text, n)

AmbientAllowed(turn) == turn - last_ambient_turn >= AmbientTurnCooldown

\* entries of the decision log the model keeps
LogWindow == 3
LogAfter(log, entry) ==
    IF Len(log) < LogWindow THEN Append(log, entry)
    ELSE Append(Tail(log), entry)

\* the engine state after the final response of the turn is applied
Committed(sts, sc, sel, prop, final) ==
    LET cat == final.category
    IN  [npc |-> [n \in Npcs |->
                    CommitNpc(sts[n], n = sel, cat, prop.category = "speech",
                              final.text, sc.turn_number)],
         scene |-> SceneAfter(sc, cat),
         history |-> [n \in Npcs |->
                        IF n = sel THEN HistoryAfter(history[n], prop, final)
                        ELSE history[n]],
         start_counts |-> [n \in Npcs |->
                        IF n = sel
                        THEN CountsAfter(history[n], start_counts[n], final)
                        ELSE start_counts[n]],
         last_speaker_id |-> IF cat = "speech" THEN sel ELSE NoNpc,
         consecutive_speaker_count |->
            IF cat = "speech"
            THEN IF last_speaker_id = sel
                 THEN consecutive_speaker_count + 1 ELSE 1
            ELSE 0,
         consecutive_action_count |-> [n \in Npcs |->
            IF n = sel THEN ActionStreakAfter(consecutive_action_count[n], cat)
            ELSE consecutive_action_count[n]],
         last_response |-> [npc |-> sel, category |-> cat, text |-> final.text],
         turn_log |-> LogAfter(turn_log, [npc |-> sel, category |-> cat])]

Apply(committed) ==
    \E c \in {committed} :
    /\ npc' = c.npc
    /\ scene' = c.scene
    /\ history' = c.history
    /\ start_counts' = c.start_counts
    /\ last_speaker_id' = c.last_speaker_id
    /\ consecutive_speaker_count' = c.consecutive_speaker_count
    /\ consecutive_action_count' = c.consecutive_action_count
    /\ last_response' = c.last_response
    /\ turn_log' = c.turn_log

(***************************************************************************)
(* The turn loop: app.tah() -> _tah_engine()                               *)
(***************************************************************************)
\* the variant of TurnMayBegin that lets tah() run while a turn waits for the AI
TurnMayBeginAnytime == phase \in {"Idle", "AwaitingExternalResponse"}
\* tah() runs one turn at a time: a turn begins only when none is in progress
TurnMayBegin == phase = "Idle"

\* _zpracuj_odchody: an NPC that wants to leave ends the two-NPC scene
EndScene ==
    /\ phase = "Idle"
    /\ \E n \in Npcs : WantsToLeave(npc[n])
    /\ phase' = "Ended"
    /\ UNCHANGED <<npc, scene, history, start_counts, last_speaker_id,
                   consecutive_speaker_count, consecutive_action_count,
                   last_ambient_turn, last_response, event, selected, gate,
                   gate_state, ai_calls, proposal, producer_failed, post_check,
                   resolved, turn_log, budget>>
    /\ UNCHANGED memvars

\* _tah_engine up to the AI call: world event, drive update, scoring, gates.
\* A gated turn is resolved locally and committed at once.
BeginTurn(forced, ambientFires) ==
    /\ TurnMayBegin
    /\ \A n \in Npcs : ~WantsToLeave(npc[n])
    /\ scene.turn_number < budget.turns
    /\ forced # NoForced => budget.forced > 0
    /\ ambientFires =>
          /\ budget.ambient > 0
          /\ forced = NoForced /\ ~LastWasQuestion /\ ~IsDying(scene)
          /\ AmbientAllowed(scene.turn_number + 1)
    /\ LET sc == [scene EXCEPT !.turn_number = @ + 1]
           ev == Generate(scene, forced, LastWasQuestion, QuestionTarget,
                          ambientFires)
           pens == [n \in Npcs |-> PreCheckPenalty(start_counts[n])]
       IN  \E updated \in {[n \in Npcs |->
                              UpdateDrivesOf(npc[n], n, ev, sc, pens[n],
                                             WasAddressed(n), WasAskedQuestion(n))]} :
           \E top \in {SelectTop(updated, ev, pens, sc.turn_number)} :
           \E chosen \in {[n \in Npcs |->
                             IF n = top
                             THEN [updated[n] EXCEPT
                                      !.last_selected_turn = sc.turn_number]
                             ELSE updated[n]]} :
           \E reason \in {GateReason(chosen, last_speaker_id,
                                     consecutive_speaker_count, top)} :
           \E local \in {IF top = NoNpc THEN NothingResponse
                         ELSE LocalResponse(reason, chosen[top])} :
              /\ event' = ev
              /\ selected' = top
              /\ gate' = reason
              /\ gate_state' = IF top = NoNpc THEN InitNpcState ELSE chosen[top]
              /\ last_ambient_turn' =
                    IF ev.source = "ambient" THEN sc.turn_number
                    ELSE last_ambient_turn
              /\ proposal' = NoResponse
              /\ producer_failed' = FALSE
              /\ post_check' = NoCheck
              /\ IF reason = "open"
                 THEN /\ phase' = "AwaitingExternalResponse"
                      /\ ai_calls' = 1
                      /\ resolved' = NoResponse
                      /\ npc' = chosen
                      /\ scene' = sc
                      /\ UNCHANGED <<history, start_counts, last_speaker_id,
                                     consecutive_speaker_count,
                                     consecutive_action_count, last_response,
                                     turn_log>>
                 ELSE /\ phase' = "Idle"
                      /\ ai_calls' = 0
                      /\ resolved' = local
                      /\ Apply(Committed(chosen, sc, top, NoResponse, local))
    /\ budget' = [budget EXCEPT
          !.forced = IF forced # NoForced THEN @ - 1 ELSE @,
          !.ambient = IF ambientFires THEN @ - 1 ELSE @]
    /\ UNCHANGED memvars

\* the variant of ProducerResponds that commits what the AI returned as it
\* is, without resolving it
ProducerRespondsUnresolved(cat, text) ==
    /\ phase = "AwaitingExternalResponse"
    /\ cat = "speech" => budget.speech > 0
    /\ cat \in {"thought", "action"} => budget.activity > 0
    /\ IF cat = "speech" THEN text \in TextPool ELSE text = NoText
    /\ proposal' = [category |-> cat, text |-> text]
    /\ Apply(Committed(npc, scene, selected, proposal', proposal'))
    /\ budget' = [budget EXCEPT
          !.speech = IF cat = "speech" THEN @ - 1 ELSE @,
          !.activity = IF cat \in {"thought", "action"} THEN @ - 1 ELSE @]
    /\ phase' = "Idle"
    /\ UNCHANGED <<last_ambient_turn, event, selected, gate, gate_state,
                   ai_calls, producer_failed, post_check, resolved>>
    /\ UNCHANGED memvars
\* the producer returns a parsed {type, text}; _process_response and commit
ProducerResponds(cat, text) ==
    /\ phase = "AwaitingExternalResponse"
    /\ cat = "speech" => budget.speech > 0
    /\ cat \in {"thought", "action"} => budget.activity > 0
    /\ IF cat = "speech" THEN text \in TextPool ELSE text = NoText
    /\ LET prop == [category |-> cat, text |-> text]
           check == IF cat = "speech"
                    THEN PostCheck(history[selected], start_counts[selected], text)
                    ELSE NoCheck
           final == ProcessResponse(check, consecutive_action_count[selected],
                                    prop)
       IN  /\ proposal' = prop
           /\ post_check' = check
           /\ resolved' = final
           /\ Apply(Committed(npc, scene, selected, prop, final))
    /\ budget' = [budget EXCEPT
          !.speech = IF cat = "speech" THEN @ - 1 ELSE @,
          !.activity = IF cat \in {"thought", "action"} THEN @ - 1 ELSE @]
    /\ phase' = "Idle"
    /\ UNCHANGED <<last_ambient_turn, event, selected, gate, gate_state,
                   ai_calls, producer_failed>>
    /\ UNCHANGED memvars

\* the variant of ProducerFails that calls the AI again in the same turn
ProducerFailsRetry ==
    /\ phase = "AwaitingExternalResponse"
    /\ ai_calls < 3
    /\ ai_calls' = ai_calls + 1
    /\ producer_failed' = TRUE
    /\ UNCHANGED <<npc, scene, history, start_counts, last_speaker_id,
                   consecutive_speaker_count, consecutive_action_count,
                   last_ambient_turn, last_response, phase, event, selected,
                   gate, gate_state, proposal, post_check, resolved, turn_log,
                   budget>>
    /\ UNCHANGED memvars
\* the AI call fails or times out: the turn resolves to NOTHING
ProducerFails ==
    /\ phase = "AwaitingExternalResponse"
    /\ producer_failed' = TRUE
    /\ resolved' = NothingResponse
    /\ Apply(Committed(npc, scene, selected, NoResponse, NothingResponse))
    /\ phase' = "Idle"
    /\ UNCHANGED <<last_ambient_turn, event, selected, gate, gate_state,
                   ai_calls, proposal, post_check, budget>>
    /\ UNCHANGED memvars

\* the enclosing scene is torn down while the AI call is outstanding
TearDown ==
    /\ phase = "AwaitingExternalResponse"
    /\ phase' = "TornDown"
    /\ UNCHANGED <<npc, scene, history, start_counts, last_speaker_id,
                   consecutive_speaker_count, consecutive_action_count,
                   last_ambient_turn, last_response, event, selected, gate,
                   gate_state, ai_calls, proposal, producer_failed, post_check,
                   resolved, turn_log, budget>>
    /\ UNCHANGED memvars

\* the variant of DiscardLateResult that commits the late answer
ApplyLateResult(cat, text) ==
    /\ phase = "TornDown"
    /\ IF cat = "speech" THEN text \in TextPool ELSE text = NoText
    /\ proposal' = [category |-> cat, text |-> text]
    /\ resolved' = [category |-> cat, text |-> text]
    /\ Apply(Committed(npc, scene, selected, proposal', resolved'))
    /\ phase' = "Ended"
    /\ UNCHANGED <<last_ambient_turn, event, selected, gate, gate_state,
                   ai_calls, producer_failed, post_check, budget>>
    /\ UNCHANGED memvars
\* the answer of the outstanding AI call arrives for a scene that is gone:
\* it is dropped, whatever it is
DiscardLateResult(cat, text) ==
    /\ phase = "TornDown"
    /\ IF cat = "speech" THEN text \in TextPool ELSE text = NoText
    /\ phase' = "Ended"
    /\ UNCHANGED <<npc, scene, history, start_counts, last_speaker_id,
                   consecutive_speaker_count, consecutive_action_count,
                   last_ambient_turn, last_response, event, selected, gate,
                   gate_state, ai_calls, proposal, producer_failed, post_check,
                   resolved, turn_log, budget>>
    /\ UNCHANGED memvars

Turn ==
    \/ EndScene
    \/ \E f \in ForcedInputs \cup {NoForced} : \E a \in BOOLEAN : BeginTurn(f, a)
Answer ==
    \E c \in Categories : \E t \in TextPool \cup {NoText} : ProducerResponds(c, t)
LateAnswer ==
    \E c \in Categories : \E t \in TextPool \cup {NoText} : DiscardLateResult(c, t)

Next ==
    \/ Turn
    \/ Answer
    \/ ProducerFails
    \/ TearDown
    \/ LateAnswer

Spec == Init /\ [][Next]_vars

\* The post-check on its own: a Speech proposal of a fresh NPC meets any
\* penalty of the range 0..1 and is classified and resolved.
PenaltyRange == 0..100
SampleSpeech == [category |-> "speech", text |-> <<"Ano", "more">>]
InitBands ==
    /\ npc = [n \in Npcs |-> InitNpcState]
    /\ scene = [InitSceneContext EXCEPT !.turn_number = 1]
    /\ history = [n \in Npcs |-> <<>>]
    /\ start_counts = [n \in Npcs |-> EmptyCounts]
    /\ last_speaker_id = NoNpc
    /\ consecutive_speaker_count = 0
    /\ consecutive_action_count = [n \in Npcs |-> 0]
    /\ last_ambient_turn = 0
    /\ last_response = NoLastResponse
    /\ phase = "AwaitingExternalResponse"
    /\ event = SilenceEvent
    /\ selected = NpcOrder[1]
    /\ gate = "open"
    /\ gate_state = InitNpcState
    /\ ai_calls = 1
    /\ proposal = SampleSpeech
    /\ producer_failed = FALSE
    /\ \E p \in PenaltyRange :
          post_check = [duplicate |-> FALSE, penalty |-> p, verdict |-> "none"]
    /\ resolved = NoResponse
    /\ turn_log = <<>>
    /\ budget = [turns |-> 1, forced |-> 0, speech |-> 0, activity |-> 0,
                 ambient |-> 0]
    /\ NoMemoryCalls
\* _process_response from the anti-rep check on: classify the penalty, then
\* accept, downgrade or reject, and commit
Classify ==
    /\ phase = "AwaitingExternalResponse"
    /\ post_check.verdict = "none"
    /\ \E check \in {[post_check EXCEPT
                         !.verdict = GetRejectionAction(post_check.penalty)]} :
       \E final \in {ProcessResponse(check, consecutive_action_count[selected],
                                     proposal)} :
          /\ post_check' = check
          /\ resolved' = final
          /\ Apply(Committed(npc, scene, selected, proposal, final))
    /\ phase' = "Idle"
    /\ UNCHANGED <<last_ambient_turn, event, selected, gate, gate_state,
                   ai_calls, proposal, producer_failed, budget>>
    /\ UNCHANGED memvars
BandSpec == InitBands /\ [][Classify]_vars

\* A turn under a forced question, begun with both NPCs in one and the same
\* state drawn from a grid: scoring and drive update on their own.
DrawnStates ==
    { [InitNpcState EXCEPT !.speak_drive = sd, !.engagement_drive = ed,
                           !.energy = en, !.cooldown_turns = cd,
                           !.last_acted_turn = la, !.last_selected_turn = ls] :
        sd \in {0, 30, 60, 100}, ed \in {0, 20, 30, 60, 100},
        en \in {20, 50, 100}, cd \in {0, 1},
        la \in {NeverTurn, 1}, ls \in {NeverTurn, 1} }
InitDrawn ==
    /\ \E st \in DrawnStates : npc = [n \in Npcs |-> st]
    /\ scene = [InitSceneContext EXCEPT !.turn_number = 1]
    /\ history = [n \in Npcs |-> <<>>]
    /\ start_counts = [n \in Npcs |-> EmptyCounts]
    /\ last_speaker_id = NoNpc
    /\ consecutive_speaker_count = 0
    /\ consecutive_action_count = [n \in Npcs |-> 0]
    /\ last_ambient_turn = 0
    /\ last_response = NoLastResponse
    /\ phase = "Idle"
    /\ event = SilenceEvent
    /\ selected = NoNpc
    /\ gate = "open"
    /\ gate_state = InitNpcState
    /\ ai_calls = 0
    /\ proposal = NoResponse
    /\ producer_failed = FALSE
    /\ post_check = NoCheck
    /\ resolved = NoResponse
    /\ turn_log = <<>>
    /\ budget = [turns |-> 2, forced |-> 1, speech |-> 0, activity |-> 0,
                 ambient |-> 0]
    /\ NoMemoryCalls
PressedTurn ==
    \E n \in Npcs : BeginTurn([question |-> TRUE, target |-> n], FALSE)
PressureSpec == InitDrawn /\ [][PressedTurn]_vars

\* A turn under any event, begun with the two NPCs in states drawn one by one
\* from a grid of speak_drive and energy: the selection on its own, equal
\* scores included.
PairStates ==
    { [InitNpcState EXCEPT !.speak_drive = sd, !.energy = en] :
          sd \in {20, 25, 30, 35, 40, 60}, en \in {50, 100} }
InitPair ==
    /\ npc \in [Npcs -> PairStates]
    /\ scene = [InitSceneContext EXCEPT !.turn_number = 1]
    /\ history = [n \in Npcs |-> <<>>]
    /\ start_counts = [n \in Npcs |-> EmptyCounts]
    /\ last_speaker_id = NoNpc
    /\ consecutive_speaker_count = 0
    /\ consecutive_action_count = [n \in Npcs |-> 0]
    /\ last_ambient_turn = 0
    /\ last_response = NoLastResponse
    /\ phase = "Idle"
    /\ event = SilenceEvent
    /\ selected = NoNpc
    /\ gate = "open"
    /\ gate_state = InitNpcState
    /\ ai_calls = 0
    /\ proposal = NoResponse
    /\ producer_failed = FALSE
    /\ post_check = NoCheck
    /\ resolved = NoResponse
    /\ turn_log = <<>>
    /\ budget = [turns |-> 2, forced |-> 1, speech |-> 0, activity |-> 0,
                 ambient |-> 0]
    /\ NoMemoryCalls
AnyTurn ==
    \E f \in ForcedInputs \cup {NoForced} : BeginTurn(f, FALSE)
PairSpec == InitPair /\ [][AnyTurn]_vars

\* A long scene with few answers of the AI: turns enough for a scene left in
\* silence to run down, no forced and no ambient event.
MaxLiveTurn == 20
MaxLiveAnswer == 1
LiveProfiles ==
    { [turns |-> MaxLiveTurn, forced |-> 0, speech |-> MaxLiveAnswer,
       activity |-> 0, ambient |-> 0] }
InitLive ==
    /\ npc = [n \in Npcs |-> InitNpcState]
    /\ scene = InitSceneContext
    /\ history = [n \in Npcs |-> <<>>]
    /\ start_counts = [n \in Npcs |-> EmptyCounts]
    /\ last_speaker_id = NoNpc
    /\ consecutive_speaker_count = 0
    /\ consecutive_action_count = [n \in Npcs |-> 0]
    /\ last_ambient_turn = 0
    /\ last_response = NoLastResponse
    /\ phase = "Idle"
    /\ event = SilenceEvent
    /\ selected = NoNpc
    /\ gate = "open"
    /\ gate_state = InitNpcState
    /\ ai_calls = 0
    /\ proposal = NoResponse
    /\ producer_failed = FALSE
    /\ post_check = NoCheck
    /\ resolved = NoResponse
    /\ turn_log = <<>>
    /\ budget \in LiveProfiles
    /\ NoMemoryCalls
\* the event loop keeps calling tah(); an AI call returns or times out; a
\* late answer arrives
LiveSpec ==
    /\ InitLive
    /\ [][Next]_vars
    /\ WF_vars(Turn)
    /\ WF_vars(Answer \/ ProducerFails)
    /\ WF_vars(LateAnswer)

(***************************************************************************)
(* mcp-server/src/index.ts: the memory server. A double is kept as an      *)
(* integer: sila in ten-thousandths, sympatie and emoce_intenzita in       *)
(* hundredths; a product is rounded to the nearest unit. The texts of a    *)
(* memory (popis, jmeno, dojem, temata, fakta, posledni_setkani) are not   *)
(* kept.                                                                   *)
(***************************************************************************)
FullSila == 10000
FirstSila == 5000
MeetingBoost == 2000
DefaultEmoce == 50
EmoceWeight == 30
DECAY_RATE == 98
MIN_SILA == 500
PoznamDobreAbove == 7000
PoznamAbove == 5000
PovedomeAbove == 3000
MaxSympatie == 100
HistorieLimit == 10
Faze == {"cizinci", "tvare", "znami", "pratele"}

Has(args, f) == f \in DOMAIN args
\* x / unit, rounded to the nearest integer, for x >= 0
Rounded(x, unit) == (x + unit \div 2) \div unit

\* const emoceIntenzita = (args.emoce_intenzita as number) || 0.5
EmoceIntenzita(args) ==
    IF Has(args, "emoce_intenzita") /\ args.emoce_intenzita # 0
    THEN args.emoce_intenzita ELSE DefaultEmoce
\* the variant of Sila that weakens the memory of a person met again
SilaReset(existing, args) ==
    Min2(FullSila,
         Rounded(FirstSila * (100 * 100 + EmoceIntenzita(args) * EmoceWeight),
                 100 * 100))
\* let sila = existing ? Math.min(1.0, existing.sila + 0.2) : 0.5;
\* sila = Math.min(1.0, sila * (1 + emoceIntenzita * 0.3));
Sila(existing, args) ==
    LET sila == IF existing # NoOsoba
                THEN Min2(FullSila, existing.sila + MeetingBoost)
                ELSE FirstSila
    IN  Min2(FullSila,
             Rounded(sila * (100 * 100 + EmoceIntenzita(args) * EmoceWeight),
                     100 * 100))

\* osoba.sila *= DECAY_RATE
Decayed(osoba) == [osoba EXCEPT !.sila = Rounded(@ * DECAY_RATE, 100)]
\* the variant of applyDecay that deletes nothing
applyDecayKeepAll(l) ==
    [n \in Ids |-> [o \in Ids |->
        IF l[n][o] = NoOsoba THEN NoOsoba ELSE Decayed(l[n][o])]]
\* applyDecay: every memory fades, the ones below MIN_SILA are deleted
applyDecay(l) ==
    [n \in Ids |-> [o \in Ids |->
        IF l[n][o] = NoOsoba THEN NoOsoba
        ELSE IF Decayed(l[n][o]).sila < MIN_SILA THEN NoOsoba
        ELSE Decayed(l[n][o])]]

\* pamet_hledej_osobu: the level of recognition of a stored person
Rozpoznani(osoba) ==
    IF osoba.sila > PoznamDobreAbove THEN "poznam_dobre"
    ELSE IF osoba.sila > PoznamAbove THEN "poznam"
    ELSE IF osoba.sila > PovedomeAbove THEN "povedome"
    ELSE "nejasne"

\* the variant of Sympatie that does not clamp
SympatieUnclamped(existing, args) ==
    (IF existing # NoVztah THEN existing.sympatie ELSE 0)
        + (IF Has(args, "sympatie_zmena") THEN args.sympatie_zmena ELSE 0)
\* Math.max(-1, Math.min(1, (existing?.sympatie || 0) + (sympatie_zmena || 0)))
Sympatie(existing, args) ==
    Max2(-MaxSympatie,
         Min2(MaxSympatie,
              (IF existing # NoVztah THEN existing.sympatie ELSE 0)
                 + (IF Has(args, "sympatie_zmena") THEN args.sympatie_zmena
                    ELSE 0)))
\* the variant of Historie that keeps the first entries of a full chronicle
HistorieKeepsFirst(existing, args) ==
    LET h == (IF existing # NoVztah THEN existing.historie ELSE <<>>)
                \o (IF Has(args, "udalost") THEN <<args.udalost>> ELSE <<>>)
    IN  IF Len(h) <= HistorieLimit THEN h ELSE SubSeq(h, 1, HistorieLimit)
\* [...historie, ...(udalost ? [udalost] : [])].slice(-10)
Historie(existing, args) ==
    LET h == (IF existing # NoVztah THEN existing.historie ELSE <<>>)
                \o (IF Has(args, "udalost") THEN <<args.udalost>> ELSE <<>>)
    IN  IF Len(h) <= HistorieLimit THEN h
        ELSE SubSeq(h, Len(h) - HistorieLimit + 1, Len(h))
\* the Vztah that pamet_aktualizuj_vztah stores
Vztah(existing, args) ==
    [osoba_a |-> args.osoba_a,
     osoba_b |-> args.osoba_b,
     faze |-> IF Has(args, "faze") THEN args.faze
              ELSE IF existing # NoVztah THEN existing.faze ELSE "cizinci",
     tykani |-> IF Has(args, "tykani") THEN args.tykani
                ELSE IF existing # NoVztah THEN existing.tykani ELSE FALSE,
     sympatie |-> Sympatie(existing, args),
     historie |-> Historie(existing, args)]

\* tool calls of a client: one that meets people again and again, one that
\* met somebody once, lets the memory fade and looks people up, one that
\* keeps a relationship, and one that keeps the chronicle of a relationship
\* and reads it
MaxUloz == 3
MaxDecay == 1
MaxVztah == 3
MaxKronika == 11
MemProfiles ==
    { [uloz |-> MaxUloz, decay |-> MaxDecay, forgets |-> FALSE,
       hleda |-> FALSE, vztah |-> 0, kronika |-> FALSE, faults |-> 0],
      [uloz |-> 1, decay |-> 0, forgets |-> TRUE, hleda |-> TRUE, vztah |-> 0,
       kronika |-> FALSE, faults |-> 0],
      [uloz |-> 0, decay |-> 0, forgets |-> FALSE, hleda |-> FALSE,
       vztah |-> MaxVztah, kronika |-> FALSE, faults |-> 0],
      [uloz |-> 0, decay |-> 0, forgets |-> FALSE, hleda |-> FALSE,
       vztah |-> MaxKronika, kronika |-> TRUE, faults |-> 0] }
\* a client whose data file cannot be read or parsed at some calls
MaxFaultUloz == 2
MaxFault == 1
FaultProfiles ==
    { [uloz |-> MaxFaultUloz, decay |-> 1, forgets |-> FALSE, hleda |-> TRUE,
       vztah |-> 1, kronika |-> TRUE, faults |-> MaxFault] }
\* S, and the records of S with the optional field f set to a value of V
With(S, f, V) == S \cup {(f :> v) @@ r : r \in S, v \in V}
EmoceValues == {0, 10, 100}
UlozArgs ==
    With({[npc_id |-> n, osoba_id |-> o] : n \in Ids, o \in Ids},
         "emoce_intenzita", EmoceValues)
HledejArgs == With({[npc_id |-> n] : n \in Ids}, "osoba_id", Ids)
ZmenaValues == {-150, -40, 30, 60, 150}
AktualizujArgs ==
    With(With(With(With({args \in [osoba_a : Ids, osoba_b : Ids] :
                            args.osoba_a # args.osoba_b},
                        "faze", Faze),
                   "tykani", BOOLEAN),
              "sympatie_zmena", ZmenaValues),
         "udalost", {"hadka"})
\* calls that only add to the chronicle
KronikaArgs ==
    With({args \in [osoba_a : Ids, osoba_b : Ids] : args.osoba_a # args.osoba_b},
         "udalost", {"hadka", "smireni"})
VztahArgs == {args \in [osoba_a : Ids, osoba_b : Ids] : args.osoba_a # args.osoba_b}
SeznamArgs == {[npc_id |-> n] : n \in Ids}

InitMemory ==
    /\ npc = [n \in Npcs |-> InitNpcState]
    /\ scene = InitSceneContext
    /\ history = [n \in Npcs |-> <<>>]
    /\ start_counts = [n \in Npcs |-> EmptyCounts]
    /\ last_speaker_id = NoNpc
    /\ consecutive_speaker_count = 0
    /\ consecutive_action_count = [n \in Npcs |-> 0]
    /\ last_ambient_turn = 0
    /\ last_response = NoLastResponse
    /\ phase = "Idle"
    /\ event = SilenceEvent
    /\ selected = NoNpc
    /\ gate = "open"
    /\ gate_state = InitNpcState
    /\ ai_calls = 0
    /\ proposal = NoResponse
    /\ producer_failed = FALSE
    /\ post_check = NoCheck
    /\ resolved = NoResponse
    /\ turn_log = <<>>
    /\ budget = [turns |-> 0, forced |-> 0, speech |-> 0, activity |-> 0,
                 ambient |-> 0]
    /\ EmptyStore
    /\ pozadavek = NoCall
    /\ odpoved = NoCall
    /\ zbyva \in MemProfiles

\* loadData: the content of the data file, or an empty store when the file
\* cannot be read or parsed
loadData(readable) ==
    IF readable THEN [npcs |-> npcs, lide |-> lide, vztahy |-> vztahy]
    ELSE EmptyData
\* saveData: the data file is overwritten with the store of the handler
saveData(data) ==
    /\ npcs' = data.npcs
    /\ lide' = data.lide
    /\ vztahy' = data.vztahy
\* the data file is readable, or the client is one whose file fails
MayLoad(readable) == readable \/ zbyva.faults > 0
Loaded(readable) == [zbyva EXCEPT !.faults = IF readable THEN @ ELSE @ - 1]

\* case "pamet_uloz_osobu": store the new or strengthened memory, saveData
pamet_uloz_osobu(args, readable) ==
    /\ zbyva.uloz > 0
    /\ MayLoad(readable)
    /\ LET data == loadData(readable)
           existing == data.lide[args.npc_id][args.osoba_id]
           osoba == [sila |-> Sila(existing, args),
                     pocet_setkani |-> existing.pocet_setkani + 1]
       IN  /\ saveData([data EXCEPT !.npcs = @ \cup {args.npc_id},
                                    !.lide[args.npc_id][args.osoba_id] = osoba])
           /\ odpoved' = [success |-> TRUE, sila |-> osoba.sila,
                          pocet_setkani |-> osoba.pocet_setkani]
    /\ pozadavek' = [name |-> "pamet_uloz_osobu", npc_id |-> args.npc_id,
                     osoba_id |-> args.osoba_id]
    /\ zbyva' = [Loaded(readable) EXCEPT !.uloz = @ - 1]
    /\ UNCHANGED enginevars

\* the variant of pamet_hledej_osobu that saves the store after the lookup
pamet_hledej_osobu_saves(args, readable) ==
    /\ zbyva.hleda
    /\ MayLoad(readable)
    /\ LET data == loadData(readable)
       IN  /\ saveData([data EXCEPT !.npcs = @ \cup {args.npc_id}])
           /\ odpoved' =
                 IF Has(args, "osoba_id")
                    /\ data.lide[args.npc_id][args.osoba_id] # NoOsoba
                 THEN [nalezeno |-> TRUE,
                       rozpoznani |-> Rozpoznani(data.lide[args.npc_id][args.osoba_id]),
                       osoba |-> data.lide[args.npc_id][args.osoba_id]]
                 ELSE [nalezeno |-> FALSE, rozpoznani |-> "neznam"]
    /\ pozadavek' = [name |-> "pamet_hledej_osobu", npc_id |-> args.npc_id,
                     osoba_id |-> IF Has(args, "osoba_id") THEN args.osoba_id
                                  ELSE "undefined"]
    /\ zbyva' = Loaded(readable)
    /\ UNCHANGED enginevars
\* case "pamet_hledej_osobu": getNPCMemory adds the NPC to the loaded data
\* only; nothing is saved
pamet_hledej_osobu(args, readable) ==
    /\ zbyva.hleda
    /\ MayLoad(readable)
    /\ LET data == loadData(readable)
       IN  odpoved' =
              IF Has(args, "osoba_id")
                 /\ data.lide[args.npc_id][args.osoba_id] # NoOsoba
              THEN [nalezeno |-> TRUE,
                    rozpoznani |-> Rozpoznani(data.lide[args.npc_id][args.osoba_id]),
                    osoba |-> data.lide[args.npc_id][args.osoba_id]]
              ELSE [nalezeno |-> FALSE, rozpoznani |-> "neznam"]
    /\ pozadavek' = [name |-> "pamet_hledej_osobu", npc_id |-> args.npc_id,
                     osoba_id |-> IF Has(args, "osoba_id") THEN args.osoba_id
                                  ELSE "undefined"]
    /\ zbyva' = Loaded(readable)
    /\ UNCHANGED <<npcs, lide, vztahy, enginevars>>

\* case "pamet_aktualizuj_vztah": store the relationship under pairKey, saveData
pamet_aktualizuj_vztah(args, readable) ==
    /\ zbyva.vztah > 0
    /\ MayLoad(readable)
    /\ LET data == loadData(readable)
           key == pairKey(args.osoba_a, args.osoba_b)
           vztah == Vztah(data.vztahy[key], args)
       IN  /\ saveData([data EXCEPT !.npcs = @ \cup {"_vztahy"},
                                    !.vztahy[key] = vztah])
           /\ odpoved' = [success |-> TRUE, vztah |-> vztah]
    /\ pozadavek' = [name |-> "pamet_aktualizuj_vztah",
                     osoba_a |-> args.osoba_a, osoba_b |-> args.osoba_b,
                     udalost |-> IF Has(args, "udalost") THEN args.udalost
                                 ELSE "undefined"]
    /\ zbyva' = [Loaded(readable) EXCEPT !.vztah = @ - 1]
    /\ UNCHANGED enginevars

\* what pamet_vztah answers from a store
VztahOdpoved(data, a, b) ==
    IF data.vztahy[pairKey(a, b)] # NoVztah
    THEN [nalezeno |-> TRUE, vztah |-> data.vztahy[pairKey(a, b)]]
    ELSE [nalezeno |-> FALSE,
          vztah |-> [faze |-> "cizinci", tykani |-> FALSE, sympatie |-> 0,
                     historie |-> <<>>]]
\* case "pamet_vztah": nothing is saved
pamet_vztah(args, readable) ==
    /\ zbyva.kronika
    /\ MayLoad(readable)
    /\ odpoved' = VztahOdpoved(loadData(readable), args.osoba_a, args.osoba_b)
    /\ pozadavek' = [name |-> "pamet_vztah", osoba_a |-> args.osoba_a,
                     osoba_b |-> args.osoba_b]
    /\ zbyva' = Loaded(readable)
    /\ UNCHANGED <<npcs, lide, vztahy, enginevars>>

\* case "pamet_shrn_rozhovor": returns the instruction; the store is not used
pamet_shrn_rozhovor(args) ==
    /\ zbyva.hleda
    /\ odpoved' = [instrukce |-> args.npc_id]
    /\ pozadavek' = [name |-> "pamet_shrn_rozhovor", npc_id |-> args.npc_id]
    /\ UNCHANGED <<npcs, lide, vztahy, zbyva, enginevars>>

\* case "pamet_decay": applyDecay(data), which ends with saveData
pamet_decay(readable) ==
    /\ zbyva.decay > 0 \/ zbyva.forgets
    /\ MayLoad(readable)
    /\ LET data == loadData(readable)
       IN  saveData([data EXCEPT !.lide = applyDecay(data.lide)])
    /\ odpoved' = [success |-> TRUE]
    /\ pozadavek' = [name |-> "pamet_decay"]
    /\ zbyva' = [Loaded(readable) EXCEPT
                    !.decay = IF zbyva.forgets THEN @ ELSE @ - 1]
    /\ UNCHANGED enginevars

\* case "pamet_seznam": getNPCMemory on the loaded data; nothing is saved
pamet_seznam(args, readable) ==
    /\ zbyva.hleda
    /\ MayLoad(readable)
    /\ LET data == loadData(readable)
       IN  odpoved' = [npc_id |-> args.npc_id,
                       pocet_lidi |-> Cardinality({o \in Ids :
                                          data.lide[args.npc_id][o] # NoOsoba}),
                       lide |-> data.lide[args.npc_id]]
    /\ pozadavek' = [name |-> "pamet_seznam", npc_id |-> args.npc_id]
    /\ zbyva' = Loaded(readable)
    /\ UNCHANGED <<npcs, lide, vztahy, enginevars>>

\* default: a tool name that is not in the switch
UnknownTool ==
    /\ zbyva.hleda
    /\ odpoved' = [isError |-> TRUE, text |-> "Neznamy nastroj"]
    /\ pozadavek' = [name |-> "pamet_smaz"]
    /\ UNCHANGED <<npcs, lide, vztahy, zbyva, enginevars>>

\* the variant of HandlerThrows in which the store was written before the
\* exception
HandlerThrowsAfterSave(n) ==
    /\ zbyva.hleda
    /\ saveData([loadData(TRUE) EXCEPT !.npcs = @ \cup {n}])
    /\ odpoved' = [isError |-> TRUE, text |-> "Chyba"]
    /\ pozadavek' = [name |-> "pamet_uloz_osobu", npc_id |-> n,
                     osoba_id |-> "undefined"]
    /\ UNCHANGED <<zbyva, enginevars>>
\* catch: pamet_uloz_osobu for NPC n whose temata is not iterable throws after
\* getNPCMemory and before saveData
HandlerThrows(n) ==
    /\ zbyva.hleda
    /\ odpoved' = [isError |-> TRUE, text |-> "Chyba"]
    /\ pozadavek' = [name |-> "pamet_uloz_osobu", npc_id |-> n,
                     osoba_id |-> "undefined"]
    /\ UNCHANGED <<npcs, lide, vztahy, zbyva, enginevars>>

UlozOsobu ==
    \E args \in UlozArgs : \E readable \in BOOLEAN :
        pamet_uloz_osobu(args, readable)
HledejOsobu ==
    \E args \in HledejArgs : \E readable \in BOOLEAN :
        pamet_hledej_osobu(args, readable)
AktualizujVztah ==
    \E args \in (IF zbyva.kronika THEN KronikaArgs ELSE AktualizujArgs) :
        \E readable \in BOOLEAN : pamet_aktualizuj_vztah(args, readable)
CtiVztah ==
    \E args \in VztahArgs : \E readable \in BOOLEAN : pamet_vztah(args, readable)
ShrnRozhovor == \E args \in SeznamArgs : pamet_shrn_rozhovor(args)
Decay == \E readable \in BOOLEAN : pamet_decay(readable)
Seznam ==
    \E args \in SeznamArgs : \E readable \in BOOLEAN : pamet_seznam(args, readable)
Throws == \E n \in Ids : HandlerThrows(n)
CallTool ==
    \/ UlozOsobu
    \/ HledejOsobu
    \/ AktualizujVztah
    \/ CtiVztah
    \/ ShrnRozhovor
    \/ Decay
    \/ Seznam
    \/ UnknownTool
    \/ Throws
MemorySpec == InitMemory /\ [][CallTool]_vars

\* the same server with a data file that cannot always be read
InitFault ==
    /\ npc = [n \in Npcs |-> InitNpcState]
    /\ scene = InitSceneContext
    /\ history = [n \in Npcs |-> <<>>]
    /\ start_counts = [n \in Npcs |-> EmptyCounts]
    /\ last_speaker_id = NoNpc
    /\ consecutive_speaker_count = 0
    /\ consecutive_action_count = [n \in Npcs |-> 0]
    /\ last_ambient_turn = 0
    /\ last_response = NoLastResponse
    /\ phase = "Idle"
    /\ event = SilenceEvent
    /\ selected = NoNpc
    /\ gate = "open"
    /\ gate_state = InitNpcState
    /\ ai_calls = 0
    /\ proposal = NoResponse
    /\ producer_failed = FALSE
    /\ post_check = NoCheck
    /\ resolved = NoResponse
    /\ turn_log = <<>>
    /\ budget = [turns |-> 0, forced |-> 0, speech |-> 0, activity |-> 0,
                 ambient |-> 0]
    /\ EmptyStore
    /\ pozadavek = NoCall
    /\ odpoved = NoCall
    /\ zbyva \in FaultProfiles
FaultSpec == InitFault /\ [][CallTool]_vars

(***************************************************************************)
(* Properties.                                                             *)
(***************************************************************************)
Unit(x) == x \in 0..100

\* a step that commits a turn: a gated turn inside BeginTurn, or the
\* producer's answer / failure
BeginStep == phase = "Idle" /\ scene'.turn_number = scene.turn_number + 1
CommitStep ==
    /\ phase' = "Idle"
    /\ \/ phase = "AwaitingExternalResponse"
       \/ BeginStep
ProducerStep == phase = "AwaitingExternalResponse" /\ phase' = "Idle"

\* C1: in every reachable state each NPC's speak_drive, stay_drive,
\* engagement_drive and energy, and the scene's scene_energy, lie in [0,1].
C1_DrivesInUnitInterval ==
    /\ \A n \in Npcs :
          /\ Unit(npc[n].speak_drive)
          /\ Unit(npc[n].stay_drive)
          /\ Unit(npc[n].engagement_drive)
          /\ Unit(npc[n].energy)
    /\ Unit(scene.scene_energy)
\* the clamp has acted at both ends: energy regenerated at the ceiling,
\* scene energy and an engagement drive decayed to the floor
C1_Witness ==
    /\ scene.turn_number >= 2
    /\ scene.scene_energy = 0
    /\ \E n \in Npcs : npc[n].energy = 100
    /\ \E n \in Npcs : npc[n].engagement_drive = 0

\* C2: no NPC is the committed Speech speaker on 3 consecutive turns.
C2_NoThreeSpeechesInARow ==
    ~ /\ Len(turn_log) = 3
      /\ \A i \in 1..3 : turn_log[i].category = "speech"
      /\ turn_log[1].npc = turn_log[2].npc
      /\ turn_log[2].npc = turn_log[3].npc
\* the NPC that spoke on the two preceding turns is selected again and stopped
C2_Witness ==
    /\ gate = "max_consecutive"
    /\ Len(turn_log) = 3
    /\ turn_log[1] = [npc |-> selected, category |-> "speech"]
    /\ turn_log[2] = [npc |-> selected, category |-> "speech"]
    /\ turn_log[3].category # "speech"

\* C3: an NPC's repetition history (accepted utterances and opening-word
\* counts) changes in a step only if that step commits a Speech of that NPC;
\* a duplicate, downgraded or rejected proposal leaves it as it was.
C3_HistoryOnlyOnFinalSpeech ==
    [][\A n \in Npcs :
          (history'[n] # history[n] \/ start_counts'[n] # start_counts[n])
             => /\ CommitStep
                /\ selected' = n
                /\ resolved'.category = "speech"
                /\ history'[n] = RecordHistory(history[n], resolved'.text)]_vars
\* a Speech proposal was downgraded to a Thought and is not in the history
C3_Witness ==
    /\ proposal.category = "speech"
    /\ resolved.category = "thought"
    /\ Len(history[selected]) >= 2
    /\ \A k \in 1..Len(history[selected]) : history[selected][k] # proposal.text

\* accepted utterances in hist that open with the opening word of t
SameStartBefore(hist, t) ==
    Cardinality({k \in 1..Len(hist) : ExtractStart(hist[k]) = ExtractStart(t)})
\* the producer answers with a Speech whose opening word opened two or more
\* of the NPC's accepted utterances
ThirdSameStart ==
    /\ ProducerStep
    /\ proposal'.category = "speech"
    /\ SameStartBefore(history[selected], proposal'.text) >= 2
\* the producer answers with the NPC's last accepted utterance again
RepeatsLastSpeech ==
    /\ ProducerStep
    /\ proposal'.category = "speech"
    /\ Len(history[selected]) > 0
    /\ \E last \in {history[selected][Len(history[selected])]} :
          /\ Len(last) = Len(proposal'.text)
          /\ \A i \in 1..Len(last) : Lower(last[i]) = Lower(proposal'.text[i])
HistoryKept ==
    /\ history' = history
    /\ start_counts' = start_counts

C5_DuplicateNeverSpeech ==
    [][RepeatsLastSpeech
          => /\ resolved'.category # "speech"
             /\ last_response'.category # "speech"
             /\ HistoryKept]_vars
\* a duplicate in other capitalisation, with a penalty that alone would have
\* accepted it, was committed as Nothing
C5_Witness ==
    /\ proposal.category = "speech"
    /\ post_check.duplicate
    /\ post_check.verdict = "accept"
    /\ history[selected][Len(history[selected])] # proposal.text
    /\ resolved.category = "nothing"

\* the selected NPC lacks "social permission" at the gate
LacksPermission ==
    /\ selected # NoNpc
    /\ gate_state.engagement_drive < 25
    /\ gate_state.speak_drive < 65
C7_FailureCommitsNothing ==
    [][(phase = "AwaitingExternalResponse" /\ producer_failed')
          => /\ resolved'.category = "nothing"
             /\ last_response' = [npc |-> selected, category |-> "nothing",
                                  text |-> NoText]
             /\ HistoryKept
             /\ scene'.consecutive_silence = scene.consecutive_silence + 1
             /\ scene'.consecutive_inactivity = scene.consecutive_inactivity + 1
             /\ scene'.scene_energy = Max2(0, scene.scene_energy - 7)
             /\ scene.scene_energy > 0 => scene'.scene_energy < scene.scene_energy
             /\ scene'.turn_number = scene.turn_number
             /\ phase' = "Idle"]_vars
\* the AI call of an NPC with accepted utterances failed, and a later turn
\* was begun after it
C7_Witness ==
    /\ \E n \in Npcs : Len(history[n]) > 0
    /\ Len(turn_log) >= 2
    /\ turn_log[Len(turn_log) - 1].category = "nothing"
    /\ producer_failed
    /\ phase = "Idle"
    /\ scene.consecutive_inactivity >= 1

C9_OneTransitionPerTurn ==
    [][/\ (scene'.turn_number = scene.turn_number + 1)
             <=> (phase = "Idle" /\ phase' # "Ended")
       /\ scene'.turn_number \in {scene.turn_number, scene.turn_number + 1}
       /\ IF CommitStep
          THEN \E cat \in {resolved'.category} :
               /\ cat \in Categories
               /\ last_response'.category = cat
               /\ cat = "speech" =>
                     /\ scene'.consecutive_silence = 0
                     /\ scene'.consecutive_inactivity = 0
                     /\ scene'.scene_energy = Min2(100, scene.scene_energy + 10)
               /\ cat = "action" =>
                     /\ scene'.consecutive_silence = scene.consecutive_silence
                     /\ scene'.consecutive_inactivity = 0
                     /\ scene'.scene_energy = Min2(100, scene.scene_energy + 3)
               /\ cat = "thought" =>
                     /\ scene'.consecutive_silence = scene.consecutive_silence
                     /\ scene'.consecutive_inactivity = 0
                     /\ scene'.scene_energy = Min2(100, scene.scene_energy + 1)
               /\ cat = "nothing" =>
                     /\ scene'.consecutive_silence = scene.consecutive_silence + 1
                     /\ scene'.consecutive_inactivity =
                           scene.consecutive_inactivity + 1
                     /\ scene'.scene_energy = Max2(0, scene.scene_energy - 7)
          ELSE /\ scene'.consecutive_silence = scene.consecutive_silence
               /\ scene'.consecutive_inactivity = scene.consecutive_inactivity
               /\ scene'.scene_energy = scene.scene_energy]_vars
\* a Thought was committed after silent turns: inactivity is back at 0 while
\* the silence counter stands
C9_Witness ==
    /\ last_response.category = "thought"
    /\ scene.consecutive_silence >= 1
    /\ scene.consecutive_inactivity = 0
    /\ scene.turn_number >= 2

\* C10: when a turn has ended and some NPC's stay_drive is <= 0.1, the only
\* step left is the one that ends the scene, with the scene state as it
\* was; an ended scene takes no step at all; and a committed Speech with
\* words of farewell sets the speaker's stay_drive to 0.
C10_LowStayDriveEndsScene ==
    [][/\ (phase = "Idle" /\ \E n \in Npcs : npc[n].stay_drive <= 10)
          => /\ phase' = "Ended"
             /\ scene' = scene
             /\ npc' = npc
             /\ turn_log' = turn_log
       /\ phase # "Ended"
       /\ (CommitStep /\ resolved'.category = "speech"
              /\ DetectGoodbye(resolved'.text))
          => npc'[selected'].stay_drive = 0]_vars
\* Nothing turns on a dying scene wore a stay_drive down to the floor, above
\* zero, and the scene ended
C10_Witness ==
    /\ phase = "Ended"
    /\ last_response.category = "nothing"
    /\ scene.consecutive_inactivity >= 2
    /\ \E n \in Npcs : npc[n].stay_drive \in 1..10

\* a step in which the AI answers, and a step that injects a forced event
AnswerStep ==
    phase = "AwaitingExternalResponse" /\ phase' = "Idle" /\ ~producer_failed'
ForcedStep == budget'.forced # budget.forced
PendingQuestion ==
    /\ last_response.category = "speech"
    /\ \E i \in 1..Len(last_response.text) : last_response.text[i] = "?"
Drained == scene.consecutive_inactivity >= 2 /\ scene.scene_energy < 15
\* C14: the event of a turn is chosen first-match-wins: a forced event; else
\* Pressure on the other NPC after a question; else an untargeted Stimulus
\* for a dying scene; else an ambient Stimulus or Silence.  Silence is never
\* generated with a forced event, after a question or in a dying scene.
C14_EventPriority ==
    [][BeginStep
          => /\ ForcedStep
                  => /\ event'.source = "forced"
                     /\ event'.kind \in {"pressure", "stimulus"}
             /\ (~ForcedStep /\ PendingQuestion)
                  => /\ event'.source = "question"
                     /\ event'.kind = "pressure"
                     /\ event'.target \in Npcs \ {last_response.npc}
             /\ (~ForcedStep /\ ~PendingQuestion /\ Drained)
                  => /\ event'.source = "dying"
                     /\ event'.kind = "stimulus"
                     /\ event'.target = NoNpc
             /\ (~ForcedStep /\ ~PendingQuestion /\ ~Drained)
                  => \/ event'.source = "ambient" /\ event'.kind = "stimulus"
                     \/ event' = SilenceEvent
             /\ event'.kind = "silence"
                  => ~ForcedStep /\ ~PendingQuestion /\ ~Drained]_vars
\* a forced event won over a pending question
C14_Witness ==
    /\ phase = "AwaitingExternalResponse"
    /\ event.source = "forced"
    /\ PendingQuestion

C16_RejectionBands ==
    post_check.verdict # "none"
       => \E p \in {post_check.penalty} :
          /\ post_check.verdict \in {"accept", "downgrade_to_thought",
                                     "downgrade_to_action", "reject"}
          /\ post_check.verdict = "accept" <=> p < 40
          /\ post_check.verdict = "downgrade_to_thought" <=> (40 <= p /\ p < 60)
          /\ post_check.verdict = "downgrade_to_action" <=> (60 <= p /\ p < 80)
          /\ post_check.verdict = "reject" <=> p >= 80
          /\ p >= 80 => resolved.category = "nothing"
          /\ (proposal.category = "speech" /\ ~post_check.duplicate)
                => (resolved.category = "speech" <=> post_check.verdict = "accept")
          /\ resolved.category = "speech"
                => /\ post_check.verdict = "accept"
                   /\ Len(history[selected]) > 0
\* a penalty on the limit 0.4 was classified downgrade_to_thought and
\* committed as a Thought
C16_Witness ==
    /\ post_check.penalty = 40
    /\ post_check.verdict = "downgrade_to_thought"
    /\ resolved.category = "thought"
    /\ history[selected] = <<>>

\* a turn begins and selects the NPC that committed a Speech on both
\* preceding turns
SelectedAtCap ==
    /\ BeginStep
    /\ Len(turn_log) >= 2
    /\ \A i \in {Len(turn_log) - 1, Len(turn_log)} :
          turn_log[i] = [npc |-> selected', category |-> "speech"]
PressedAlike ==
    /\ BeginStep
    /\ event'.kind = "pressure"
    /\ event'.intensity = 100
    /\ event'.target \in Npcs
    /\ \A n, m \in Npcs :
          /\ npc[n] = npc[m]
          /\ history[n] = history[m]
          /\ start_counts[n] = start_counts[m]
\* the scores of the turn that begins, after its drive update
ScoreOfTurn(n) ==
    Score(UpdateDrivesOf(npc[n], n, event', scene', PreCheckPenalty(start_counts[n]),
                         WasAddressed(n), WasAskedQuestion(n)),
          n, event', PreCheckPenalty(start_counts[n]), scene'.turn_number)
\* C18: on a turn with a Pressure of intensity 1.0 on NPC A, A and B being
\* in the same state, the score of A is greater than the score of B by at
\* least the bonus 0.4, and the selector takes A unless its score is below
\* the minimum.
C18_PressureTargetScoresHigher ==
    [][PressedAlike
          => \E a \in {event'.target} : \E b \in {OtherNpc(event'.target)} :
             /\ ScoreOfTurn(a) >= ScoreOfTurn(b) + 4000
             /\ selected' \in {a, NoNpc}
             /\ ScoreOfTurn(a) >= 1500 => selected' = a]_vars
\* the second NPC of the bench was pressed and selected although both have
\* the same urge to speak after the update
C18_Witness ==
    /\ phase = "AwaitingExternalResponse"
    /\ event.kind = "pressure"
    /\ event.intensity = 100
    /\ selected = NpcOrder[2]
    /\ event.target = selected
    /\ npc[NpcOrder[1]].speak_drive = npc[NpcOrder[2]].speak_drive

\* a turn begins under a Pressure of intensity 1.0 on some NPC
PressedFully ==
    /\ BeginStep
    /\ event'.kind = "pressure"
    /\ event'.intensity = 100
    /\ event'.target \in Npcs
C20_FirstTurnReachesProducer ==
    [][/\ (BeginStep /\ scene.turn_number = 0 /\ event' = SilenceEvent)
             => /\ selected' \in Npcs
                /\ gate' = "open"
                /\ npc'[selected'].engagement_drive = 25
                /\ npc'[selected'].speak_drive < 65
                /\ ai_calls' = 1
                /\ phase' = "AwaitingExternalResponse"
       /\ (ProducerStep /\ scene.turn_number = 1)
             => /\ resolved'.category \in Categories
                /\ last_response'.category = resolved'.category
                /\ last_response'.npc = selected]_vars
\* the first turn, begun in silence, was answered by the AI with a Speech
C20_Witness ==
    /\ scene.turn_number = 1
    /\ event = SilenceEvent
    /\ gate = "open"
    /\ gate_state.engagement_drive = 25
    /\ ai_calls = 1
    /\ phase = "Idle"
    /\ resolved.category = "speech"

C22_OneCallPerTurn ==
    [][/\ ai_calls' <= 1
       /\ ai_calls' # ai_calls => BeginStep
       /\ (phase' = "AwaitingExternalResponse" /\ phase # phase')
             => (BeginStep /\ ai_calls' = 1 /\ selected' \in Npcs)
       /\ (producer_failed' /\ ~producer_failed)
             => /\ phase = "AwaitingExternalResponse"
                /\ phase' = "Idle"
                /\ ai_calls' = ai_calls
                /\ selected' = selected
                /\ scene'.turn_number = scene.turn_number
                /\ resolved' = NothingResponse]_vars
\* the AI call of a later turn failed: one call was made and the turn is over
C22_Witness ==
    /\ producer_failed
    /\ phase = "Idle"
    /\ ai_calls = 1
    /\ scene.turn_number >= 2
    /\ resolved = NothingResponse
    /\ last_response.category = "nothing"

\* the step of a tool call, and the memory a call of pamet_uloz_osobu wrote
UlozStep ==
    /\ pozadavek'.name = "pamet_uloz_osobu"
    /\ pozadavek'.osoba_id # "undefined"
DecayStep == pozadavek'.name = "pamet_decay"
Stored(n, o) == lide[n][o] # NoOsoba
StoredKeys == {key \in Keys : vztahy[key] # NoVztah}

\* C23: after any sequence of pamet_aktualizuj_vztah calls, whatever the
\* values of sympatie_zmena, the sympatie of every stored relationship is
\* within [-1, 1].
C23_SympatieClamped ==
    \A key \in Keys :
        vztahy[key] # NoVztah
            => /\ vztahy[key].sympatie >= -100
               /\ vztahy[key].sympatie <= 100
\* the first call of a client gave a change of +1.5 and 1.0 is stored; a later
\* state holds -1.0
C23_Witness ==
    \E key \in StoredKeys :
        \/ /\ zbyva.vztah = MaxVztah - 1
           /\ vztahy[key].sympatie = 100
           /\ odpoved.vztah.sympatie = 100
        \/ /\ zbyva.vztah = MaxVztah - 2
           /\ vztahy[key].sympatie = -100
           /\ Len(vztahy[key].historie) = 2

\* C24: pamet_hledej_osobu answers poznam_dobre if sila > 0.7, poznam if
\* sila > 0.5, povedome if sila > 0.3, nejasne if sila > 0.1, and neznam if
\* sila <= 0.1 or the person is not stored.
C24_RecognitionAsDocumented ==
    pozadavek.name = "pamet_hledej_osobu"
        => LET n == pozadavek.npc_id
               o == pozadavek.osoba_id
               stored == o \in Ids /\ lide[n][o] # NoOsoba
               sila == IF stored THEN lide[n][o].sila ELSE 0
           IN  odpoved.rozpoznani =
                  IF stored /\ sila > 7000 THEN "poznam_dobre"
                  ELSE IF stored /\ sila > 5000 THEN "poznam"
                  ELSE IF stored /\ sila > 3000 THEN "povedome"
                  ELSE IF stored /\ sila > 1000 THEN "nejasne"
                  ELSE "neznam"

\* C25: from an empty store, after any sequence of pamet_uloz_osobu and
\* pamet_decay calls every stored memory has 0.05 <= sila <= 1: a decay
\* multiplies every sila by 0.98 and deletes exactly the memories whose
\* decayed sila is below 0.05, and a save caps sila at 1.0.
C25_SilaWithinBounds ==
    [][/\ \A n \in Ids : \A o \in Ids :
             lide'[n][o] # NoOsoba
                => (lide'[n][o].sila >= 500 /\ lide'[n][o].sila <= 10000)
       /\ DecayStep
             => \A n \in Ids : \A o \in Ids :
                   IF ~Stored(n, o) THEN lide'[n][o] = NoOsoba
                   ELSE LET decayed == (lide[n][o].sila * 98 + 50) \div 100
                        IN  IF decayed < 500 THEN lide'[n][o] = NoOsoba
                            ELSE /\ lide'[n][o].sila = decayed
                                 /\ lide'[n][o].pocet_setkani
                                       = lide[n][o].pocet_setkani]_vars
\* the one memory of a client faded to just above 0.05 and the next decay
\* deleted it
C25_Witness ==
    /\ pozadavek.name = "pamet_decay"
    /\ zbyva.forgets
    /\ zbyva.uloz = 0
    /\ \A n \in Ids : \A o \in Ids : lide[n][o] = NoOsoba

\* C26: a meeting strengthens the memory: pamet_uloz_osobu on a stored person,
\* with emoce_intenzita in [0, 1] or without it, gives a sila that is not
\* below the stored one and is above it when that was below 1; the first save
\* of a person gives sila >= 0.5.
C26_MeetingStrengthens ==
    [][UlozStep
          => LET n == pozadavek'.npc_id
                 o == pozadavek'.osoba_id
             IN  /\ lide'[n][o] # NoOsoba
                 /\ IF Stored(n, o)
                    THEN /\ lide'[n][o].sila >= lide[n][o].sila
                         /\ lide[n][o].sila < 10000
                               => lide'[n][o].sila > lide[n][o].sila
                    ELSE lide'[n][o].sila >= 5000]_vars
\* a person was met three times; the third meeting, with no decay since the
\* second, found sila at 1.0 and left it there
C26_Witness ==
    \E n \in Ids : \E o \in Ids :
        /\ pozadavek = [name |-> "pamet_uloz_osobu", npc_id |-> n, osoba_id |-> o]
        /\ lide[n][o].pocet_setkani = 3
        /\ lide[n][o].sila = 10000
        /\ zbyva.decay = MaxDecay

\* C27: a stronger conversation is remembered better: from one and the same
\* store, pamet_uloz_osobu with a higher emoce_intenzita in [0, 1] gives a
\* sila that is not below the one a lower emoce_intenzita gives, 0 included.
C27_StrongerRememberedBetter ==
    \A n \in Ids : \A o \in Ids :
        \A lower \in 0..100 : \A higher \in lower..100 :
            Sila(lide[n][o], [npc_id |-> n, osoba_id |-> o,
                              emoce_intenzita |-> lower])
               <= Sila(lide[n][o], [npc_id |-> n, osoba_id |-> o,
                                    emoce_intenzita |-> higher])

\* C28: in every reachable state of the store a relationship whose faze is
\* pratele has tykani = true and sympatie >= 0.6.
C28_FriendsNeedTykaniAndSympatie ==
    \A key \in Keys :
        (vztahy[key] # NoVztah /\ vztahy[key].faze = "pratele")
            => (vztahy[key].tykani /\ vztahy[key].sympatie >= 60)

C30_EngagementRiseCapped ==
    [][BeginStep
          => \A n \in Npcs :
                LET rise == npc'[n].engagement_drive - npc[n].engagement_drive
                IN  /\ rise <= 45
                    /\ (WasAddressed(n) /\ WasAskedQuestion(n)
                           /\ npc[n].engagement_drive <= 55)
                          => rise = 35 + (IF event'.kind = "pressure"
                                             /\ event'.target = n
                                          THEN event'.intensity \div 10 ELSE 0)]_vars
\* Karel was addressed and asked a question by Vlasta; the question became
\* the Pressure event of turn 2 and his engagement went from 0.3 to 0.73, or
\* to 0.75 under a forced event
C30_Witness ==
    /\ scene.turn_number = 2
    /\ phase = "AwaitingExternalResponse"
    /\ WasAddressed("karel")
    /\ WasAskedQuestion("karel")
    /\ event.kind = "pressure"
    /\ event.target = "karel"
    /\ npc["karel"].engagement_drive \in {73, 75}

\* C31: last_acted_turn, last_selected_turn and last_addressed_turn of every
\* NPC start at -1, never decrease and never exceed the turn_number of the
\* scene; turn_number never decreases.
C31_TurnIndicesMonotone ==
    /\ \A n \in Npcs :
          /\ npc[n].last_acted_turn = -1
          /\ npc[n].last_selected_turn = -1
          /\ npc[n].last_addressed_turn = -1
    /\ [][/\ scene'.turn_number >= scene.turn_number
           /\ \A n \in Npcs :
                 /\ npc'[n].last_acted_turn >= npc[n].last_acted_turn
                 /\ npc'[n].last_selected_turn >= npc[n].last_selected_turn
                 /\ npc'[n].last_addressed_turn >= npc[n].last_addressed_turn
                 /\ npc'[n].last_acted_turn <= scene'.turn_number
                 /\ npc'[n].last_selected_turn <= scene'.turn_number
                 /\ npc'[n].last_addressed_turn <= scene'.turn_number]_vars
\* an NPC that acted on an earlier turn is selected in the current one, was
\* addressed in between, and the other NPC has not acted yet
C31_Witness ==
    \E n \in Npcs :
        /\ scene.turn_number >= 3
        /\ npc[n].last_selected_turn = scene.turn_number
        /\ npc[n].last_acted_turn \in 1..(scene.turn_number - 1)
        /\ npc[n].last_addressed_turn \in 1..scene.turn_number
        /\ npc[OtherNpc(n)].last_acted_turn \in 1..(scene.turn_number - 1)
        /\ npc[OtherNpc(n)].last_addressed_turn = -1

\* C32: a turn that commits Nothing leaves the last_acted_turn of the
\* selected NPC as it was and its last_selected_turn is the current turn;
\* last_acted_turn changes only for the selected NPC of a turn committed as
\* Speech, Thought or Action, to that turn.
C32_NothingIsNotAnAct ==
    [][/\ (CommitStep /\ selected' \in Npcs /\ resolved'.category = "nothing")
             => /\ npc'[selected'].last_acted_turn
                      = npc[selected'].last_acted_turn
                /\ npc'[selected'].last_selected_turn = scene'.turn_number
       /\ \A n \in Npcs :
             npc'[n].last_acted_turn # npc[n].last_acted_turn
                => /\ CommitStep
                   /\ n = selected'
                   /\ resolved'.category \in {"speech", "thought", "action"}
                   /\ npc'[n].last_acted_turn = scene'.turn_number]_vars
\* the NPC selected in this turn acted in an earlier turn; its turn was
\* committed as Nothing and last_acted_turn still names the earlier turn
C32_Witness ==
    /\ phase = "Idle"
    /\ selected \in Npcs
    /\ resolved.category = "nothing"
    /\ last_response.category = "nothing"
    /\ npc[selected].last_selected_turn = scene.turn_number
    /\ npc[selected].last_acted_turn \in 1..(scene.turn_number - 1)

\* C33: silence is not death. After a turn committed as Speech, Thought or
\* Action the scene is not dying, and a dying scene has its last two turns
\* committed as Nothing, whatever scene_energy and consecutive_silence are.
C33_SilenceIsNotDeath ==
    [][/\ (CommitStep /\ resolved'.category \in {"speech", "thought", "action"})
             => ~(scene'.consecutive_inactivity >= 2 /\ scene'.scene_energy < 15)
       /\ (scene'.consecutive_inactivity >= 2 /\ scene'.scene_energy < 15)
             => /\ Len(turn_log') >= 2
                /\ turn_log'[Len(turn_log')].category = "nothing"
                /\ turn_log'[Len(turn_log') - 1].category = "nothing"]_vars
\* a scene without speech for turns and with its energy run down, kept from
\* dying by a thought or an action
C33_Witness ==
    /\ last_response.category \in {"thought", "action"}
    /\ scene.scene_energy < 15
    /\ scene.consecutive_silence >= 2
    /\ scene.consecutive_inactivity = 0
    /\ phase = "Idle"

\* C34: in every reachable state consecutive_inactivity and
\* consecutive_silence are not negative and consecutive_inactivity is not
\* above consecutive_silence.
C34_InactivityWithinSilence ==
    /\ scene.consecutive_inactivity >= 0
    /\ scene.consecutive_silence >= 0
    /\ scene.consecutive_inactivity <= scene.consecutive_silence
\* three turns without speech, of which only the last was without any activity
C34_Witness ==
    /\ scene.consecutive_silence = 3
    /\ scene.consecutive_inactivity = 1
    /\ last_response.category = "nothing"

RelKey == <<"babicka_vlasta", "delnik_franta">>
AktualizujStep == pozadavek'.name = "pamet_aktualizuj_vztah"
VztahStep == pozadavek'.name = "pamet_vztah"
StoredHistorie == IF vztahy[RelKey] = NoVztah THEN <<>> ELSE vztahy[RelKey].historie

\* C36: relationships are symmetric in their two ids: an update with the ids
\* in either order writes the one relationship stored for the pair and
\* leaves no other relationship behind, and pamet_vztah with the ids in
\* either order answers with that one relationship.
C36_RelationshipSymmetric ==
    [][/\ AktualizujStep
            => /\ vztahy'[RelKey] = odpoved'.vztah
               /\ \A key \in DOMAIN vztahy' \ {RelKey} : vztahy'[key] = NoVztah
       /\ VztahStep
            => /\ odpoved'.nalezeno = (vztahy[RelKey] # NoVztah)
               /\ odpoved'.nalezeno => odpoved'.vztah = vztahy[RelKey]]_vars
\* the relationship was last updated with the ids in sorted order, after an
\* earlier update, and is read with the ids in the other order
C36_Witness ==
    /\ pozadavek.name = "pamet_vztah"
    /\ pozadavek.osoba_a = RelKey[2]
    /\ pozadavek.osoba_b = RelKey[1]
    /\ odpoved.nalezeno
    /\ odpoved.vztah.osoba_a = RelKey[1]
    /\ odpoved.vztah.historie = <<"smireni", "hadka">>

\* C37: after any sequence of pamet_aktualizuj_vztah calls the historie of a
\* relationship has at most 10 entries: each call with udalost appends it,
\* a call without udalost adds nothing, and of more than 10 entries the
\* last 10 are kept in the order of the calls.
C37_HistorieKeepsLastTen ==
    /\ [](Len(StoredHistorie) <= 10)
    /\ [][AktualizujStep
            => \E all \in {IF pozadavek'.udalost = "undefined" THEN StoredHistorie
                           ELSE Append(StoredHistorie, pozadavek'.udalost)} :
               \E new \in {vztahy'[RelKey].historie} :
                  /\ Len(new) = Min2(Len(all), 10)
                  /\ \A i \in 1..Len(new) : new[i] = all[Len(all) - Len(new) + i]]_vars
\* the eleventh call of a chronicle: ten entries are kept, the last of them
\* the udalost of the call
C37_Witness ==
    /\ zbyva.kronika
    /\ zbyva.vztah <= MaxKronika - 11
    /\ pozadavek.name = "pamet_aktualizuj_vztah"
    /\ pozadavek.udalost = "smireni"
    /\ Len(StoredHistorie) = 10
    /\ StoredHistorie[1] = "hadka"
    /\ StoredHistorie[10] = "smireni"

QueryStep ==
    pozadavek'.name \in {"pamet_hledej_osobu", "pamet_vztah", "pamet_seznam",
                         "pamet_shrn_rozhovor"}
StoreUnchanged == <<npcs, lide, vztahy>>' = <<npcs, lide, vztahy>>
IsError(result) == "isError" \in DOMAIN result /\ result.isError

\* C38: pamet_hledej_osobu, pamet_vztah, pamet_seznam and
\* pamet_shrn_rozhovor never change the persisted store: after such a call,
\* for known or unknown ids, the stored NPCs, memories and relationships are
\* what they were before.
C38_QueriesLeaveStore ==
    [][QueryStep => StoreUnchanged]_vars
\* a lookup in the memory of an NPC that has none, while another NPC has one
C38_Witness ==
    /\ pozadavek.name = "pamet_hledej_osobu"
    /\ pozadavek.npc_id \notin npcs
    /\ npcs # {}
    /\ \E n \in npcs : \E o \in Ids : Stored(n, o)
    /\ ~odpoved.nalezeno

C40_UlozChangesOneMemory ==
    [][UlozStep
          => /\ vztahy' = vztahy
             /\ \A n \in Ids : \A o \in Ids :
                   (n # pozadavek'.npc_id \/ o # pozadavek'.osoba_id)
                      => lide'[n][o] = lide[n][o]]_vars

=============================================================================
